---- MODULE Spec2Model ----
(***************************************************************************)
(* Per-user job queue of the e-book cleaning bot (the queue version of the *)
(* bot: addJobToQueue / processUserQueue and the handlers that feed them). *)
(*                                                                         *)
(* Node runs the handlers on one thread; a handler is suspended only at an *)
(* `await`.  Every action below is one run-to-next-await slice of one      *)
(* handler: it is taken when the awaited call settles and contains all the *)
(* synchronous code up to and including the next awaited call.             *)
(*                                                                         *)
(* db.write() serialises db.data when it is called; the parameter `w` of   *)
(* an action is the outcome that write is going to have (TRUE: the file    *)
(* now holds the snapshot, FALSE: the file is untouched and the awaiting   *)
(* handler gets a rejection).  The parameter `ok` is the outcome of the    *)
(* awaited collaborator call (message send, download, pipeline stage).     *)
(***************************************************************************)
EXTENDS Integers, Sequences, FiniteSets, TLC

Users == {"A", "B"}
DictNames == {"d1"}

\* ---- bounds of the model -------------------------------------------------
MaxJobs == 2
MaxRestarts == 1
MaxFailures == 1
MaxEdits == 2
MaxRules == 2
MaxRejected == 1
MaxClock == 1
MaxOps == 2
MaxDictEdits == 4
MaxLen == 3
MaxKids == 2
MaxCalls == 2

JobIds == 1..MaxJobs

VARIABLES
    userStates,            \* db.data.userStates, in memory
    disk,                  \* db.json: the last snapshot written
    userProcessingStatus,  \* the drain flag per user
    procs,                 \* one handler instance per submission
    nextId,                \* number of the next submission
    restarts,              \* process restarts so far
    failures,              \* collaborator calls that failed so far
    edits,                 \* profile-editing messages so far
    saves,                 \* single-use rule lists saved so far
    appended,              \* history: ids in the order userQueue.push ran
    started,               \* history: ids in the order processingQueue.shift ran
    outcome,               \* history: how each job ended
    expected,              \* history: queue length + 1 when enqueue was called
    reported,              \* history: position written into the enqueue message
    frozen,                \* history: the options a job was created with
    used,                  \* history: the options the pipeline read
    pendingRules,          \* history: the rule list saved since the last submission
    promised,              \* history: the rule list pending when a job was submitted
    runs,                  \* history: times the execution of each job began
    rejected,              \* history: documents not taken and refusals sent, per user
    dl,                    \* the download of each document: its timer and its history
    temp,                  \* ./temp and ./recipes, and the handlers that use them
    told,                  \* history: documents and error messages sent for each job
    doc,                   \* the DOM of one entry, its cleaning options and results
    pipe                   \* one run of processEpubBuffer and sendProcessedFile

vars == <<userStates, disk, userProcessingStatus, procs, nextId, restarts,
          failures, edits, saves, appended, started, outcome, expected, reported,
          frozen, used, pendingRules, promised, runs, rejected, dl, temp, told,
          doc, pipe>>

\* the state of the bot proper: profiles, queues, handlers and their history
botVars == <<userStates, disk, userProcessingStatus, procs, nextId, restarts,
             failures, edits, saves, appended, started, outcome, expected,
             reported, frozen, used, pendingRules, promised, runs, rejected,
             dl, temp, told, doc>>

offer == <<pendingRules, promised>>

hist == <<appended, started, outcome, expected, reported, frozen, used>>

aux == <<runs, rejected, dl, temp, told, doc, pipe>>

\* ---- values --------------------------------------------------------------

\* metadata: undefined, or an object with optional title and author
NoMetadata == [def |-> FALSE, title |-> 0, author |-> 0]
EmptyMetadata == [def |-> TRUE, title |-> 0, author |-> 0]

\* userDictionaries: undefined, or an object; rules[d] = -1: no such key,
\* otherwise the number of rules of dictionary d
NoDictionaries == [def |-> FALSE, rules |-> [d \in DictNames |-> -1]]
EmptyDictionaries == [def |-> TRUE, rules |-> [d \in DictNames |-> -1]]

\* activeDictionaries: undefined, or an array of names
NoActive == [def |-> FALSE, names |-> <<>>]

\* the option fields a job carries (removeImages stands for the toggles)
OptionFields == {"removeImages", "singleUseReplacements", "customCss",
                 "metadata", "userDictionaries", "activeDictionaries"}

\* fields holding an object that a job shares with the profile by reference
RefFields == {"metadata", "userDictionaries", "activeDictionaries"}

defaultOptions ==
    [removeImages |-> TRUE,
     singleUseReplacements |-> 0,
     customCss |-> 0,
     metadata |-> NoMetadata,
     userDictionaries |-> NoDictionaries,
     activeDictionaries |-> NoActive]

NoShare == [f \in RefFields |-> FALSE]

NoJob == [id |-> 0, kind |-> "none", options |-> defaultOptions, shared |-> NoShare]

\* a profile that was never created (db.data.userStates[chatId] undefined)
NoProfile ==
    [exists |-> FALSE,
     removeImages |-> TRUE,
     singleUseReplacements |-> 0,
     customCss |-> 0,
     metadata |-> NoMetadata,
     userDictionaries |-> NoDictionaries,
     activeDictionaries |-> NoActive,
     isWaitingForReplacements |-> FALSE,
     isWaitingForMetadata |-> FALSE,
     isWaitingForDictionaryRules |-> FALSE,
     currentDictionaryName |-> "",
     processingQueue |-> <<>>]

\* { ...userDefault, singleUseReplacements: [], processingQueue: [] }
NewProfile == [NoProfile EXCEPT !.exists = TRUE]

\* if (!db.data.userStates[chatId]) db.data.userStates[chatId] = {...}
EnsureProfile(us, u) ==
    IF us[u].exists THEN us ELSE [us EXCEPT ![u] = NewProfile]

NoProc ==
    [owner |-> "", kind |-> "none", file |-> <<>>, pc |-> "none", wok |-> TRUE,
     job |-> NoJob]

\* ---- document names ---------------------------------------------------------
\* A file name is the sequence of its parts between dots: a.EPUB is
\* <<"a", "EPUB">>.

Book == <<"a", "epub">>

\* msg.document.file_name is optional: a document without a name
NoName == <<>>

FileNames ==
    {Book, <<"a", "EPUB">>, <<"a", "pdf">>, <<"a", "doc">>,
     <<"a", "epub", "zip">>, <<"epub">>, NoName}

\* path.extname(undefined) throws a TypeError
Throws(name) == name = NoName

\* const allowedExtensions = ['.epub', '.pdf', '.mobi', '.azw3', '.txt'];
allowedExtensions == {"epub", "pdf", "mobi", "azw3", "txt"}

\* path.extname(file.file_name): what follows the last dot, nothing when the
\* name has no dot
extname(name) == IF Len(name) >= 2 THEN name[Len(name)] ELSE ""

\* String.prototype.toLowerCase on the extensions of FileNames
toLowerCase(x) ==
    CASE x = "EPUB" -> "epub"
      [] OTHER -> x

\* if (file.file_name && allowedExtensions.includes(fileExtension))
Supported(name) ==
    /\ name # NoName
    /\ toLowerCase(extname(name)) \in allowedExtensions

DrainPcs == {"drainWrite", "drainSend", "pipeline", "deliver", "clearWrite"}
EnqueuePcs == {"enqWrite", "enqSend"}

\* ---- the options snapshot of a job ---------------------------------------

\* const { processingQueue, ..., ...jobOptions } = userOptions;
\* options: { ...jobOptions, chatId }: a shallow copy, so every field that
\* holds an object still points to the profile's object
MakeJob(profile, id, kind) ==
    [id |-> id,
     kind |-> kind,
     options |-> [f \in OptionFields |-> profile[f]],
     shared |-> [f \in RefFields |-> profile[f].def]]

\* ---- objects shared by reference -----------------------------------------

\* the job as it reads after the profile's object in field f was mutated to v
SeenBy(job, f, v) ==
    IF job.id # 0 /\ job.shared[f]
    THEN [job EXCEPT !.options = [@ EXCEPT ![f] = v]]
    ELSE job

\* the job after the profile's field f was bound to another object
Unshare(job, f) == [job EXCEPT !.shared = [@ EXCEPT ![f] = FALSE]]

\* mutation in place of the object in field f of u's profile
MutateProfile(us, u, f, v) ==
    [us EXCEPT ![u] =
        [us[u] EXCEPT ![f] = v,
                      !.processingQueue =
                          [i \in DOMAIN us[u].processingQueue |->
                              SeenBy(us[u].processingQueue[i], f, v)]]]

MutateProcs(pr, u, f, v) ==
    [p \in JobIds |->
        IF pr[p].owner = u THEN [pr[p] EXCEPT !.job = SeenBy(pr[p].job, f, v)]
        ELSE pr[p]]

\* assignment of a new object to field f of u's profile
RebindProfile(us, u, f, v) ==
    [us EXCEPT ![u] =
        [us[u] EXCEPT ![f] = v,
                      !.processingQueue =
                          [i \in DOMAIN us[u].processingQueue |->
                              Unshare(us[u].processingQueue[i], f)]]]

RebindProcs(pr, u, f) ==
    [p \in JobIds |->
        IF pr[p].owner = u THEN [pr[p] EXCEPT !.job = Unshare(pr[p].job, f)]
        ELSE pr[p]]

\* ---- persistence ---------------------------------------------------------

\* a snapshot that leaves the queues out
Serialize_NoQueue(us) == [u \in Users |-> [us[u] EXCEPT !.processingQueue = <<>>]]

\* JSON.stringify / JSON.parse: the values survive, object identity does not
Serialize(us) ==
    [u \in Users |->
        [us[u] EXCEPT !.processingQueue =
            [i \in DOMAIN us[u].processingQueue |->
                [us[u].processingQueue[i] EXCEPT !.shared = NoShare]]]]

\* db.write() of the snapshot `us`, with outcome w
Written(us, w) == IF w THEN Serialize(us) ELSE disk

\* the failed calls of one step: the awaited call that settled (ok) and the
\* db.write() the step calls (w); at most MaxFailures calls fail in a run
Failed(ok, w) ==
    LET n == (IF ok THEN 0 ELSE 1) + (IF w THEN 0 ELSE 1)
    IN  /\ failures + n <= MaxFailures
        /\ failures' = failures + n

\* ---- the container and the run of one job ----------------------------------
\* processEpubBuffer is taken with the per-entry translation of src/bot.js
\* (translateDocument calls the translation service) and with the whole-book
\* translation and the output conversion of the queue version.

\* entries whose name matches /\.(html|xhtml|xml)$/i
TextEntries == {"ch1", "ch2"}

\* entries whose name matches /\.(jpe?g|png|gif|svg|webp)$/i
ImageEntries == {"img"}

Entries == TextEntries \cup ImageEntries

\* what one markup entry does when it is processed: its content is well
\* formed or not, the cleaners change the parsed document or not, and
\* translate() answers with a translation, with nothing usable, or with
\* 'Too many requests'
EntryInputs ==
    [parses : BOOLEAN, dirty : BOOLEAN, trans : {"ok", "same", "overload"}]

\* language tags, as the sequence of their characters
Es == <<"e", "s">>
Est == <<"e", "s", "t">>
En == <<"e", "n">>

\* no <dc:language> in the .opf entry, or no .opf entry: getLanguageFromOPF
\* returns null
NoLang == <<>>

\* the .opf entry: its read resolves or rejects, and the language it declares
OpfInputs ==
    {[reads |-> TRUE, lang |-> t] : t \in {Es, Est, En, NoLang}}
        \cup {[reads |-> FALSE, lang |-> NoLang]}

\* detectLanguageFromContent: the code franc gives for the sample, or null
\* when no sample text was read
FrancInputs == {"spa", "eng", "null"}

\* a job: whether jszip.loadAsync opens the buffer, its .opf and markup
\* entries, the options the run reads (translate, translationEngine,
\* removeImages, outputFormat), and what parser.parseFromString(content,
\* 'application/xml') of the installed DOM library does with malformed
\* content: it throws (strict), or it returns a document whose root is a
\* <parsererror> element, as the DOM Parsing standard has it
Inputs ==
    [opens : BOOLEAN, strict : BOOLEAN, translate : BOOLEAN,
     translationEngine : BOOLEAN, opf : OpfInputs, franc : FrancInputs,
     removeImages : BOOLEAN, outputFormat : {"epub", "pdf"},
     entry : [TextEntries -> EntryInputs]]

NoInput ==
    [opens |-> TRUE, strict |-> TRUE, translate |-> FALSE,
     translationEngine |-> FALSE, opf |-> [reads |-> TRUE, lang |-> NoLang],
     franc |-> "null", removeImages |-> FALSE,
     outputFormat |-> "epub",
     entry |-> [e \in TextEntries |->
                   [parses |-> TRUE, dirty |-> FALSE, trans |-> "same"]]]

\* no run: the value of `pipe` while only the queue is looked at
NoPipe ==
    [stage |-> "idle", in |-> NoInput,
     zip |-> [e \in Entries |-> "orig"],
     task |-> [e \in TextEntries |-> "none"],
     modified |-> [e \in TextEntries |-> FALSE],
     reads |-> {}, parsingErrors |-> {}, warned |-> {},
     shouldTranslate |-> FALSE, invoked |-> {}, currentBuffer |-> "none",
     returned |-> [bytes |-> "none", wasTranslated |-> FALSE],
     collab |-> "none", delivered |-> 0, errors |-> 0, overloadMsgs |-> 0]

\* ---- downloads and temporary files -------------------------------------------

\* the download of a document before its timer is set: the timer is "none",
\* then "armed" (setTimeout), then "cleared" (clearTimeout) or "fired"
\* (controller.abort()); overdue: the 120 s passed while the download was in
\* flight; timeoutMsgs: the timeout messages sent for it
NoDownload == [timer |-> "none", overdue |-> FALSE, timeoutMsgs |-> 0]

\* a handler that uses no temporary file; otherwise kind is the part of the
\* code that runs ("ingest": conversion of a document to EPUB, "story":
\* download of a story, "translation": whole-book translation, "output":
\* conversion to the output format), paths the paths it computed and made
\* the files it created
NoOp == [kind |-> "none", stage |-> "idle", paths |-> {}, made |-> {}]

\* the directories before any job: files are the paths that exist, now is
\* Date.now(), ops the number of handlers started so far
\* no entry parsed
NoDoc == [stage |-> "none"]

\* nothing sent yet for a job
NoneTold == [docs |-> 0, errs |-> 0]

NoTemp == [files |-> {}, op |-> [u \in Users |-> NoOp], now |-> 0, ops |-> 0]

\* ---- Init ----------------------------------------------------------------

InitBot ==
    /\ userStates = [u \in Users |-> NoProfile]
    /\ disk = [u \in Users |-> NoProfile]
    /\ userProcessingStatus = [u \in Users |-> FALSE]
    /\ procs = [p \in JobIds |-> NoProc]
    /\ nextId = 1
    /\ restarts = 0
    /\ failures = 0
    /\ edits = 0
    /\ saves = 0
    /\ appended = [u \in Users |-> <<>>]
    /\ started = [u \in Users |-> <<>>]
    /\ outcome = [j \in JobIds |-> "none"]
    /\ expected = [j \in JobIds |-> 0]
    /\ reported = [j \in JobIds |-> -1]
    /\ frozen = [j \in JobIds |-> defaultOptions]
    /\ used = [j \in JobIds |-> defaultOptions]
    /\ pendingRules = [u \in Users |-> 0]
    /\ promised = [j \in JobIds |-> 0]
    /\ runs = [j \in JobIds |-> 0]
    /\ rejected = [u \in Users |-> [docs |-> 0, msgs |-> 0]]
    /\ dl = [p \in JobIds |-> NoDownload]
    /\ temp = NoTemp
    /\ told = [j \in JobIds |-> NoneTold]

Init ==
    /\ InitBot
    /\ doc = NoDoc
    /\ pipe = NoPipe

\* ---- addJobToQueue -------------------------------------------------------

\* addJobToQueue(chatId, job) up to its first await: the job is built from
\* the profile, pushed, and db.write() is called
Enqueue(j, u, kind, w) ==
    LET us1 == EnsureProfile(userStates, u)
        job == MakeJob(us1[u], j, kind)
        us2 == [us1 EXCEPT ![u].processingQueue = Append(@, job)]
    IN  /\ userStates' = us2
        /\ disk' = Written(us2, w)
        /\ procs' = [procs EXCEPT ![j] =
                        [owner |-> u, kind |-> kind, file |-> procs[j].file,
                         pc |-> "enqWrite", wok |-> w, job |-> NoJob]]
        /\ appended' = [appended EXCEPT ![u] = Append(@, j)]
        /\ expected' = [expected EXCEPT ![j] = Len(us1[u].processingQueue) + 1]
        /\ frozen' = [frozen EXCEPT ![j] = job.options]
        /\ outcome' = [outcome EXCEPT ![j] = "queued"]

\* a story URL arrives: handleUrlInput runs into addJobToQueue without an await
SubmitUrl(u, w) ==
    /\ nextId <= MaxJobs
    /\ Failed(TRUE, w)
    /\ Enqueue(nextId, u, "url", w)
    /\ nextId' = nextId + 1
    /\ promised' = [promised EXCEPT ![nextId] = pendingRules[u]]
    /\ pendingRules' = [pendingRules EXCEPT ![u] = 0]
    /\ UNCHANGED <<userProcessingStatus, restarts, edits, saves, started,
                   reported, used>>
    /\ UNCHANGED aux

\* a document with a supported extension arrives: the profile is created if
\* missing and the handler awaits the download (and the ingest conversion)
SubmitDocument(u, name) ==
    /\ nextId <= MaxJobs
    /\ ~Throws(name)
    /\ Supported(name)
    /\ userStates' = EnsureProfile(userStates, u)
    /\ procs' = [procs EXCEPT ![nextId] =
                    [owner |-> u, kind |-> "file", file |-> name,
                     pc |-> "download", wok |-> TRUE, job |-> NoJob]]
    /\ nextId' = nextId + 1
    /\ promised' = [promised EXCEPT ![nextId] = pendingRules[u]]
    /\ pendingRules' = [pendingRules EXCEPT ![u] = 0]
    /\ UNCHANGED <<disk, userProcessingStatus, restarts, failures, edits,
                   saves, hist>>
    /\ UNCHANGED aux

\* a document whose name fails the test arrives: the profile is created if
\* missing (in memory only) and the refusal is sent; no job is built
DocumentRejected(u, name) ==
    /\ ~Throws(name)
    /\ ~Supported(name)
    /\ rejected[u].docs < MaxRejected
    /\ rejected' = [rejected EXCEPT ![u].docs = @ + 1, ![u].msgs = @ + 1]
    /\ userStates' = EnsureProfile(userStates, u)
    /\ UNCHANGED <<disk, userProcessingStatus, procs, nextId, restarts,
                   failures, edits, saves, hist, offer, runs, dl, temp, told,
                   doc, pipe>>

\* a document without a name arrives: the profile is created if missing and
\* path.extname throws before the test; the handler ends with no message
DocumentThrows(u, name) ==
    /\ Throws(name)
    /\ rejected[u].docs < MaxRejected
    /\ rejected' = [rejected EXCEPT ![u].docs = @ + 1]
    /\ userStates' = EnsureProfile(userStates, u)
    /\ UNCHANGED <<disk, userProcessingStatus, procs, nextId, restarts,
                   failures, edits, saves, hist, offer, runs, dl, temp, told,
                   doc, pipe>>

\* the download settles: on success the job is built and enqueued, on failure
\* handleError reports it and nothing is enqueued
DownloadDone(p, ok, w) ==
    /\ procs[p].pc = "download"
    /\ Failed(ok, w)
    /\ IF ok
       THEN /\ Enqueue(p, procs[p].owner, "file", w)
            /\ UNCHANGED <<userProcessingStatus, nextId, restarts, edits,
                           saves, started, reported, used, offer>>
       ELSE /\ w
            /\ procs' = [procs EXCEPT ![p].pc = "done"]
            /\ UNCHANGED <<userStates, disk, userProcessingStatus, nextId,
                           restarts, edits, saves, hist, offer>>
    /\ UNCHANGED aux

\* `await db.write()` of addJobToQueue settles: on success sendMessage is
\* called with `Posicion: ${userQueue.length}`, read now; a rejection leaves
\* addJobToQueue
EnqWriteDone(p) ==
    /\ procs[p].pc = "enqWrite"
    /\ IF procs[p].wok
       THEN /\ procs' = [procs EXCEPT ![p].pc = "enqSend"]
            /\ reported' = [reported EXCEPT ![p] =
                               Len(userStates[procs[p].owner].processingQueue)]
       ELSE /\ procs' = [procs EXCEPT ![p].pc = "done"]
            /\ reported' = reported
    /\ UNCHANGED <<userStates, disk, userProcessingStatus, nextId, restarts,
                   failures, edits, saves, appended, started, outcome,
                   expected, frozen, used, offer>>
    /\ UNCHANGED aux

\* ---- processUserQueue ----------------------------------------------------

\* the `finally` of processUserQueue: the flag is reset and db.write() is
\* called; nothing runs after that write
Finally(p, us, pr, oc, st, w) ==
    /\ userStates' = us
    /\ disk' = Written(us, w)
    /\ procs' = [pr EXCEPT ![p].pc = "done", ![p].wok = TRUE, ![p].job = NoJob]
    /\ userProcessingStatus' = [st EXCEPT ![pr[p].owner] = FALSE]
    /\ started' = started
    /\ outcome' = oc

\* pop() in the place of shift(): the job taken from the other end
Pop(q) == [job |-> q[Len(q)], rest |-> SubSeq(q, 1, Len(q) - 1)]

\* the head read and left in the queue
Peek(q) == [job |-> Head(q), rest |-> q]

\* processingQueue.shift(): the job taken and the queue left
Shift(q) == [job |-> Head(q), rest |-> Tail(q)]

\* the `while` test of processUserQueue: either the head job is shifted and
\* db.write() is called, or the loop ends in the `finally`
LoopOrExit(p, us, pr, oc, st, w) ==
    LET u == pr[p].owner
        q == us[u].processingQueue
    IN  IF us[u].exists /\ Len(q) > 0
        THEN LET job == Shift(q).job
                 us2 == [us EXCEPT ![u].processingQueue = Shift(q).rest]
             IN
             /\ userStates' = us2
             /\ disk' = Written(us2, w)
             /\ procs' = [pr EXCEPT ![p].pc = "drainWrite", ![p].wok = w,
                                    ![p].job = job]
             /\ userProcessingStatus' = st
             /\ started' = [started EXCEPT ![u] = Append(@, job.id)]
             /\ outcome' = [oc EXCEPT ![job.id] = "dequeued"]
        ELSE Finally(p, us, pr, oc, st, w)

\* the guard without its test: every call starts a drain loop
AlreadyProcessing_Never(st, u) == FALSE

\* the guard on one flag for all users instead of one per user
AlreadyProcessing_Global(st, u) == \E v \in Users : st[v]

\* if (userProcessingStatus[chatId]) return;
AlreadyProcessing(st, u) == st[u]

\* processUserQueue(chatId) from its call to its first await
processUserQueue(p, w) ==
    IF AlreadyProcessing(userProcessingStatus, procs[p].owner)
    THEN /\ w
         /\ procs' = [procs EXCEPT ![p].pc = "done"]
         /\ UNCHANGED <<userStates, disk, userProcessingStatus, started, outcome>>
    ELSE LoopOrExit(p, userStates, procs, outcome,
                    [userProcessingStatus EXCEPT ![procs[p].owner] = TRUE], w)

\* `await bot.sendMessage(...)` of addJobToQueue settles: on success
\* processUserQueue is called, a rejection leaves addJobToQueue before the call
EnqSendDone(p, ok, w) ==
    /\ procs[p].pc = "enqSend"
    /\ Failed(ok, w)
    /\ IF ok
       THEN processUserQueue(p, w)
       ELSE /\ w
            /\ procs' = [procs EXCEPT ![p].pc = "done"]
            /\ UNCHANGED <<userStates, disk, userProcessingStatus, started, outcome>>
    /\ UNCHANGED <<nextId, restarts, edits, saves, appended, expected,
                   reported, frozen, used, offer>>
    /\ UNCHANGED aux

\* db.write() after the shift called and not awaited: the start message is
\* sent whether the write succeeds or not
DrainWriteDone_Unawaited(p, w) ==
    /\ procs[p].pc = "drainWrite"
    /\ Failed(TRUE, w)
    /\ w
    /\ procs' = [procs EXCEPT ![p].pc = "drainSend"]
    /\ UNCHANGED <<userStates, disk, userProcessingStatus, started, outcome>>
    /\ UNCHANGED <<nextId, restarts, edits, saves, appended, expected,
                   reported, frozen, used, offer>>
    /\ UNCHANGED aux

\* `await db.write()` after the shift settles: on success the start message is
\* sent; a rejection is outside the inner try and ends the loop
DrainWriteDone(p, w) ==
    /\ procs[p].pc = "drainWrite"
    /\ Failed(TRUE, w)
    /\ IF procs[p].wok
       THEN /\ w
            /\ procs' = [procs EXCEPT ![p].pc = "drainSend"]
            /\ UNCHANGED <<userStates, disk, userProcessingStatus, started, outcome>>
       ELSE Finally(p, userStates, procs,
                    [outcome EXCEPT ![procs[p].job.id] = "dropped"],
                    userProcessingStatus, w)
    /\ UNCHANGED <<nextId, restarts, edits, saves, appended, expected,
                   reported, frozen, used, offer>>
    /\ UNCHANGED aux

\* the start message settles: on success the job enters the inner try (source
\* bytes, then processEpubBuffer); a rejection ends the loop
DrainSendDone(p, ok, w) ==
    /\ procs[p].pc = "drainSend"
    /\ Failed(ok, w)
    /\ IF ok
       THEN /\ w
            /\ procs' = [procs EXCEPT ![p].pc = "pipeline"]
            /\ runs' = [runs EXCEPT ![procs[p].job.id] = @ + 1]
            /\ UNCHANGED <<userStates, disk, userProcessingStatus, started, outcome>>
       ELSE /\ runs' = runs
            /\ Finally(p, userStates, procs,
                       [outcome EXCEPT ![procs[p].job.id] = "dropped"],
                       userProcessingStatus, w)
    /\ UNCHANGED <<nextId, restarts, edits, saves, appended, expected,
                   reported, frozen, used, offer>>
    /\ UNCHANGED <<rejected, dl, temp, told, doc, pipe>>

\* a title or an author read from the package metadata of the book
FromOPF == 2

\* if (options.metadata && (options.metadata.title || options.metadata.author)):
\* a missing title or author is read from the package and assigned into
\* options.metadata
ResolveMetadata(m) ==
    IF m.def /\ (m.title # 0 \/ m.author # 0)
    THEN [m EXCEPT !.title = IF @ = 0 THEN FromOPF ELSE @,
                   !.author = IF @ = 0 THEN FromOPF ELSE @]
    ELSE m

\* the profiles after processEpubBuffer assigned into the metadata object of
\* `job`: the object is the profile's own while the job shares it
ResolvedProfile(us, u, job) ==
    IF job.shared.metadata
    THEN MutateProfile(us, u, "metadata", ResolveMetadata(job.options.metadata))
    ELSE us

\* the handlers after the same assignment
ResolvedProcs(pr, p) ==
    LET job == pr[p].job
        v == ResolveMetadata(job.options.metadata)
    IN  IF job.shared.metadata
        THEN MutateProcs(pr, pr[p].owner, "metadata", v)
        ELSE [pr EXCEPT ![p].job = [job EXCEPT !.options = [@ EXCEPT !.metadata = v]]]

\* a failure of processEpubBuffer thrown out of the while loop: the loop ends
\* in the `finally`
PipelineDone_Rethrow(p, ok, w) ==
    /\ procs[p].pc = "pipeline"
    /\ Failed(ok, w)
    /\ used' = [used EXCEPT ![procs[p].job.id] = procs[p].job.options]
    /\ IF ok
       THEN /\ w
            /\ userStates' = ResolvedProfile(userStates, procs[p].owner, procs[p].job)
            /\ procs' = [ResolvedProcs(procs, p) EXCEPT ![p].pc = "deliver"]
            /\ UNCHANGED <<disk, userProcessingStatus, started, outcome>>
       ELSE Finally(p, ResolvedProfile(userStates, procs[p].owner, procs[p].job),
                    ResolvedProcs(procs, p),
                    [outcome EXCEPT ![procs[p].job.id] = "err"],
                    userProcessingStatus, w)
    /\ UNCHANGED <<nextId, restarts, edits, saves, appended, expected,
                   reported, frozen, offer>>
    /\ told' = IF ok THEN told
               ELSE [told EXCEPT ![procs[p].job.id].errs = @ + 1]
    /\ UNCHANGED <<runs, rejected, dl, temp, doc, pipe>>

\* processEpubBuffer(fileBuffer, job.options, ...) reads job.options, resolves
\* the missing metadata and settles: on success sendProcessedFile is called, on failure the catch
\* reports the error and the loop goes on
PipelineDone(p, ok, w) ==
    /\ procs[p].pc = "pipeline"
    /\ Failed(ok, w)
    /\ used' = [used EXCEPT ![procs[p].job.id] = procs[p].job.options]
    /\ IF ok
       THEN /\ w
            /\ userStates' = ResolvedProfile(userStates, procs[p].owner, procs[p].job)
            /\ procs' = [ResolvedProcs(procs, p) EXCEPT ![p].pc = "deliver"]
            /\ UNCHANGED <<disk, userProcessingStatus, started, outcome>>
       ELSE LoopOrExit(p, ResolvedProfile(userStates, procs[p].owner, procs[p].job),
                       [ResolvedProcs(procs, p) EXCEPT ![p].job = NoJob],
                       [outcome EXCEPT ![procs[p].job.id] = "err"],
                       userProcessingStatus, w)
    /\ UNCHANGED <<nextId, restarts, edits, saves, appended, expected,
                   reported, frozen, offer>>
    /\ told' = IF ok THEN told
               ELSE [told EXCEPT ![procs[p].job.id].errs = @ + 1]
    /\ UNCHANGED <<runs, rejected, dl, temp, doc, pipe>>

\* the cleanup after a delivered result:
\*   if (userState.singleUseReplacements) userState.singleUseReplacements = [];
\*   if (userState.customCss) userState.customCss = '';
\*   if (userState.metadata) userState.metadata = {};
ClearOneShot(us, u) ==
    LET us1 == [us EXCEPT ![u].singleUseReplacements = 0, ![u].customCss = 0]
    IN  IF us[u].metadata.def
        THEN RebindProfile(us1, u, "metadata", EmptyMetadata)
        ELSE us1

\* sendProcessedFile settles: on success the document was sent, the one-shot
\* state is cleared and db.write() is called; a failure comes before
\* bot.sendDocument or after it (the summary message, deleteMessage), the catch
\* reports the error and the loop goes on
DeliverDone(p, ok, w) ==
    /\ procs[p].pc = "deliver"
    /\ Failed(ok, w)
    /\ LET u == procs[p].owner IN
       IF ok
       THEN IF userStates[u].exists
            THEN /\ userStates' = ClearOneShot(userStates, u)
                 /\ disk' = Written(ClearOneShot(userStates, u), w)
                 /\ procs' = [(IF userStates[u].metadata.def
                               THEN RebindProcs(procs, u, "metadata")
                               ELSE procs)
                              EXCEPT ![p].pc = "clearWrite", ![p].wok = w]
                 /\ UNCHANGED <<userProcessingStatus, started, outcome>>
            ELSE LoopOrExit(p, userStates, [procs EXCEPT ![p].job = NoJob],
                            [outcome EXCEPT ![procs[p].job.id] = "ok"],
                            userProcessingStatus, w)
       ELSE LoopOrExit(p, userStates, [procs EXCEPT ![p].job = NoJob],
                       [outcome EXCEPT ![procs[p].job.id] = "err"],
                       userProcessingStatus, w)
    /\ UNCHANGED <<nextId, restarts, edits, saves, appended, expected,
                   reported, frozen, used, offer>>
    /\ IF ok
       THEN told' = [told EXCEPT ![procs[p].job.id].docs = @ + 1]
       ELSE \E sent \in {0, 1} :
               told' = [told EXCEPT ![procs[p].job.id] =
                           [docs |-> @.docs + sent, errs |-> @.errs + 1]]
    /\ UNCHANGED <<runs, rejected, dl, temp, doc, pipe>>

\* `await db.write()` of the cleanup settles; a rejection goes to the catch,
\* which reports an error for the job already delivered; either way the loop
\* goes on
ClearWriteDone(p, w) ==
    /\ procs[p].pc = "clearWrite"
    /\ Failed(TRUE, w)
    /\ LoopOrExit(p, userStates, [procs EXCEPT ![p].job = NoJob],
                  [outcome EXCEPT ![procs[p].job.id] =
                      IF procs[p].wok THEN "ok" ELSE "err"],
                  userProcessingStatus, w)
    /\ UNCHANGED <<nextId, restarts, edits, saves, appended, expected,
                   reported, frozen, used, offer>>
    /\ told' = IF procs[p].wok THEN told
               ELSE [told EXCEPT ![procs[p].job.id].errs = @ + 1]
    /\ UNCHANGED <<runs, rejected, dl, temp, doc, pipe>>

\* ---- process restart -----------------------------------------------------

InQueueOf(us, j) == \E u \in Users : \E i \in DOMAIN us[u].processingQueue :
                        us[u].processingQueue[i].id = j

\* the process dies and start() runs again: db.read() loads db.json, every
\* handler in flight is gone, userProcessingStatus is a new empty object
Restart ==
    /\ restarts < MaxRestarts
    /\ restarts' = restarts + 1
    /\ userStates' = disk
    /\ userProcessingStatus' = [u \in Users |-> FALSE]
    /\ procs' = [p \in JobIds |->
                    IF procs[p].pc = "none" THEN procs[p]
                    ELSE [procs[p] EXCEPT !.pc = "done", !.wok = TRUE, !.job = NoJob]]
    /\ outcome' = [j \in JobIds |->
                    IF InQueueOf(disk, j) THEN "queued"
                    ELSE IF outcome[j] = "queued" THEN "lost"
                    ELSE IF outcome[j] = "dequeued" THEN "killed"
                    ELSE outcome[j]]
    /\ UNCHANGED <<disk, nextId, failures, edits, saves, appended, started,
                   expected, reported, frozen, used, offer>>
    /\ UNCHANGED aux

\* ---- profile edits ---------------------------------------------------------
\* Each of these handlers changes the profile before its first await that
\* follows the change, so one action holds the whole change and the
\* db.write() that follows it.

Edit(w) ==
    /\ edits < MaxEdits
    /\ edits' = edits + 1
    /\ Failed(TRUE, w)
    /\ UNCHANGED aux

\* callback toggle_<option>: userOptions[optionKey] = !userOptions[optionKey]
ToggleOption(u, w) ==
    /\ Edit(w)
    /\ LET us1 == EnsureProfile(userStates, u)
           us2 == [us1 EXCEPT ![u].removeImages = ~@]
       IN  /\ userStates' = us2
           /\ disk' = Written(us2, w)
    /\ UNCHANGED <<userProcessingStatus, procs, nextId, restarts, saves, hist, offer>>

\* /reemplazar
CmdReemplazar(u, w) ==
    /\ Edit(w)
    /\ LET us1 == EnsureProfile(userStates, u)
           us2 == [us1 EXCEPT ![u].isWaitingForReplacements = TRUE]
       IN  /\ userStates' = us2
           /\ disk' = Written(us2, w)
    /\ UNCHANGED <<userProcessingStatus, procs, nextId, restarts, saves, hist, offer>>

\* /metadata: isWaitingForMetadata = true; metadata = {}
CmdMetadata(u, w) ==
    /\ Edit(w)
    /\ LET us1 == EnsureProfile(userStates, u)
           us2 == RebindProfile([us1 EXCEPT ![u].isWaitingForMetadata = TRUE],
                                u, "metadata", EmptyMetadata)
       IN  /\ userStates' = us2
           /\ disk' = Written(us2, w)
    /\ procs' = RebindProcs(procs, u, "metadata")
    /\ UNCHANGED <<userProcessingStatus, nextId, restarts, saves, hist, offer>>

\* an edit of the dictionaries
DictEdit(w) ==
    /\ edits < MaxDictEdits
    /\ edits' = edits + 1
    /\ Failed(TRUE, w)
    /\ UNCHANGED aux

\* /diccionario crear <name>
CmdDiccionarioCrear(u, d, w) ==
    /\ DictEdit(w)
    /\ LET us1 == EnsureProfile(userStates, u)
           us2 == IF us1[u].userDictionaries.def THEN us1
                  ELSE [us1 EXCEPT ![u].userDictionaries = EmptyDictionaries]
       IN  IF us2[u].userDictionaries.rules[d] >= 0
           THEN /\ w
                /\ userStates' = us2
                /\ disk' = disk
           ELSE LET us3 == [us2 EXCEPT ![u].isWaitingForDictionaryRules = TRUE,
                                       ![u].currentDictionaryName = d]
                IN  /\ userStates' = us3
                    /\ disk' = Written(us3, w)
    /\ UNCHANGED <<userProcessingStatus, procs, nextId, restarts, saves, hist, offer>>

\* /fin
CmdFin(u, w) ==
    /\ userStates[u].exists
    /\ userStates[u].isWaitingForDictionaryRules
    /\ DictEdit(w)
    /\ LET us1 == [userStates EXCEPT ![u].isWaitingForDictionaryRules = FALSE,
                                     ![u].currentDictionaryName = ""]
       IN  /\ userStates' = us1
           /\ disk' = Written(us1, w)
    /\ UNCHANGED <<userProcessingStatus, procs, nextId, restarts, saves, hist, offer>>

IsIn(x, seq) == \E i \in DOMAIN seq : seq[i] = x

Without(seq, x) == SelectSeq(seq, LAMBDA y : y # x)

\* /diccionario activar <name>
CmdActivar(u, d, w) ==
    /\ userStates[u].exists
    /\ userStates[u].userDictionaries.def
    /\ userStates[u].userDictionaries.rules[d] >= 0
    /\ ~IsIn(d, userStates[u].activeDictionaries.names)
    /\ DictEdit(w)
    /\ LET v == [def |-> TRUE,
                 names |-> Append(userStates[u].activeDictionaries.names, d)]
       IN  /\ userStates' = MutateProfile(userStates, u, "activeDictionaries", v)
           /\ disk' = Written(MutateProfile(userStates, u, "activeDictionaries", v), w)
           /\ procs' = MutateProcs(procs, u, "activeDictionaries", v)
    /\ UNCHANGED <<userProcessingStatus, nextId, restarts, saves, hist, offer>>

\* /diccionario desactivar <name>
CmdDesactivar(u, d, w) ==
    /\ userStates[u].exists
    /\ userStates[u].activeDictionaries.def
    /\ IsIn(d, userStates[u].activeDictionaries.names)
    /\ DictEdit(w)
    /\ LET v == [def |-> TRUE,
                 names |-> Without(userStates[u].activeDictionaries.names, d)]
       IN  /\ userStates' = MutateProfile(userStates, u, "activeDictionaries", v)
           /\ disk' = Written(MutateProfile(userStates, u, "activeDictionaries", v), w)
           /\ procs' = MutateProcs(procs, u, "activeDictionaries", v)
    /\ UNCHANGED <<userProcessingStatus, nextId, restarts, saves, hist, offer>>

\* callback dict_toggle_<name>: activeDictionaries ||= []; the name is spliced
\* out if it is in the list and pushed if it is not
CallbackDictToggle(u, d, w) ==
    /\ DictEdit(w)
    /\ LET us1 == EnsureProfile(userStates, u)
           names == us1[u].activeDictionaries.names
           v == [def |-> TRUE,
                 names |-> IF IsIn(d, names) THEN Without(names, d)
                           ELSE Append(names, d)]
           us2 == IF us1[u].activeDictionaries.def
                  THEN MutateProfile(us1, u, "activeDictionaries", v)
                  ELSE RebindProfile(us1, u, "activeDictionaries", v)
       IN  /\ userStates' = us2
           /\ disk' = Written(us2, w)
           /\ procs' = IF us1[u].activeDictionaries.def
                       THEN MutateProcs(procs, u, "activeDictionaries", v)
                       ELSE procs
    /\ UNCHANGED <<userProcessingStatus, nextId, restarts, saves, hist, offer>>

\* callback dict_delete_<name>, for a dictionary that exists: the key is
\* deleted and the name spliced out of activeDictionaries; if there is no
\* activeDictionaries, indexOf throws after the delete and nothing is written
CallbackDictDelete(u, d, w) ==
    /\ userStates[u].exists
    /\ userStates[u].userDictionaries.def
    /\ userStates[u].userDictionaries.rules[d] >= 0
    /\ DictEdit(w)
    /\ LET dicts == [def |-> TRUE,
                     rules |-> [userStates[u].userDictionaries.rules EXCEPT ![d] = -1]]
           us1 == MutateProfile(userStates, u, "userDictionaries", dicts)
           pr1 == MutateProcs(procs, u, "userDictionaries", dicts)
           act == [def |-> TRUE,
                   names |-> Without(userStates[u].activeDictionaries.names, d)]
       IN  IF userStates[u].activeDictionaries.def
           THEN /\ userStates' = MutateProfile(us1, u, "activeDictionaries", act)
                /\ disk' = Written(MutateProfile(us1, u, "activeDictionaries", act), w)
                /\ procs' = MutateProcs(pr1, u, "activeDictionaries", act)
           ELSE /\ w
                /\ userStates' = us1
                /\ disk' = disk
                /\ procs' = pr1
    /\ UNCHANGED <<userProcessingStatus, nextId, restarts, saves, hist, offer>>

\* a text message that is no command, while isWaitingForReplacements: the
\* parsed rules replace singleUseReplacements (a list not saved before)
TextReplacements(u, w) ==
    /\ userStates[u].exists
    /\ userStates[u].isWaitingForReplacements
    /\ Edit(w)
    /\ LET us1 == [userStates EXCEPT ![u].singleUseReplacements = saves + 1,
                                     ![u].isWaitingForReplacements = FALSE]
       IN  /\ userStates' = us1
           /\ disk' = Written(us1, w)
    /\ saves' = saves + 1
    /\ pendingRules' = [pendingRules EXCEPT ![u] = saves + 1]
    /\ UNCHANGED <<userProcessingStatus, procs, nextId, restarts, hist, promised>>

\* ... else while isWaitingForMetadata: the text is the title if none is set,
\* otherwise the author, written into the metadata object
TextMetadata(u, w) ==
    /\ userStates[u].exists
    /\ ~userStates[u].isWaitingForReplacements
    /\ userStates[u].isWaitingForMetadata
    /\ userStates[u].metadata.def
    /\ Edit(w)
    /\ LET m == userStates[u].metadata
           v == IF m.title = 0 THEN [m EXCEPT !.title = 1]
                ELSE [m EXCEPT !.author = 1]
           us1 == MutateProfile(userStates, u, "metadata", v)
           us2 == IF m.title = 0 THEN us1
                  ELSE [us1 EXCEPT ![u].isWaitingForMetadata = FALSE]
       IN  /\ userStates' = us2
           /\ disk' = Written(us2, w)
           /\ procs' = MutateProcs(procs, u, "metadata", v)
    /\ UNCHANGED <<userProcessingStatus, nextId, restarts, saves, hist, offer>>

\* ... else while isWaitingForDictionaryRules: the rule of the text is pushed
\* onto userDictionaries[currentDictionaryName]
TextDictionaryRules(u, w) ==
    /\ userStates[u].exists
    /\ ~userStates[u].isWaitingForReplacements
    /\ ~userStates[u].isWaitingForMetadata
    /\ userStates[u].isWaitingForDictionaryRules
    /\ userStates[u].currentDictionaryName \in DictNames
    /\ DictEdit(w)
    /\ LET d == userStates[u].currentDictionaryName
           old == userStates[u].userDictionaries.rules[d]
           n == IF old < 0 THEN 1 ELSE old + 1
           v == [def |-> TRUE,
                 rules |-> [userStates[u].userDictionaries.rules EXCEPT ![d] = n]]
       IN  /\ n <= MaxRules
           /\ userStates' = MutateProfile(userStates, u, "userDictionaries", v)
           /\ disk' = Written(MutateProfile(userStates, u, "userDictionaries", v), w)
           /\ procs' = MutateProcs(procs, u, "userDictionaries", v)
    /\ UNCHANGED <<userProcessingStatus, nextId, restarts, saves, hist, offer>>

\* the edits of the options and of the one-shot state
OptionEdit(u, w) ==
    \/ ToggleOption(u, w)
    \/ CmdReemplazar(u, w)
    \/ CmdMetadata(u, w)
    \/ TextReplacements(u, w)
    \/ TextMetadata(u, w)

\* the edits of the dictionaries
DictionaryEdit(u, w) ==
    \/ \E d \in DictNames : CmdDiccionarioCrear(u, d, w)
    \/ CmdFin(u, w)
    \/ \E d \in DictNames : CmdActivar(u, d, w)
    \/ \E d \in DictNames : CmdDesactivar(u, d, w)
    \/ TextDictionaryRules(u, w)
    \/ \E d \in DictNames : CallbackDictToggle(u, d, w)
    \/ \E d \in DictNames : CallbackDictDelete(u, d, w)

\* ---- the queue, without profile edits --------------------------------------

Step(p, ok, w) ==
    \/ DownloadDone(p, ok, w)
    \/ EnqWriteDone(p) /\ ok /\ w
    \/ EnqSendDone(p, ok, w)
    \/ DrainWriteDone(p, w) /\ ok
    \/ DrainSendDone(p, ok, w)
    \/ PipelineDone(p, ok, w)
    \/ DeliverDone(p, ok, w)
    \/ ClearWriteDone(p, w) /\ ok

Next ==
    \/ \E u \in Users, w \in BOOLEAN : SubmitUrl(u, w)
    \/ \E u \in Users : SubmitDocument(u, Book)
    \/ \E p \in JobIds, ok \in BOOLEAN, w \in BOOLEAN : Step(p, ok, w)
    \/ Restart

Spec == Init /\ [][Next]_vars

\* ---- one user who also edits the options and the one-shot state ----------

NextProfile ==
    \/ \E w \in BOOLEAN : SubmitUrl("A", w)
    \/ SubmitDocument("A", Book)
    \/ \E p \in JobIds, ok \in BOOLEAN, w \in BOOLEAN : Step(p, ok, w)
    \/ \E w \in BOOLEAN : OptionEdit("A", w)

SpecProfile == Init /\ [][NextProfile]_vars

\* ---- one user who edits the dictionaries -----------------------------------
\* The commands, the text messages and the callbacks of the dictionaries, with
\* db.write() succeeding or failing, and the process restarting from db.json.

NextDictionary ==
    \/ \E w \in BOOLEAN : DictionaryEdit("A", w)
    \/ Restart

SpecDictionary == Init /\ [][NextDictionary]_vars

\* ---- the queue under fair scheduling ---------------------------------------
\* The event loop runs every continuation whose awaited call has settled, and
\* every collaborator call settles (with a result or with an error); nothing
\* obliges a user to send another message.

NextFair ==
    \/ \E u \in Users, w \in BOOLEAN : SubmitUrl(u, w)
    \/ \E u \in Users : SubmitDocument(u, Book)
    \/ \E p \in JobIds, ok \in BOOLEAN, w \in BOOLEAN : Step(p, ok, w)

SpecFair ==
    /\ Init
    /\ [][NextFair]_vars
    /\ \A p \in JobIds : WF_vars(\E ok \in BOOLEAN, w \in BOOLEAN : Step(p, ok, w))

\* ---- two users, only one of them scheduled --------------------------------
\* No collaborator call fails, and only the handlers of user B are sure to be
\* resumed: a call awaited by a handler of user A may take for ever.

NextSound ==
    \/ \E u \in Users : SubmitUrl(u, TRUE)
    \/ \E u \in Users : SubmitDocument(u, Book)
    \/ \E p \in JobIds : Step(p, TRUE, TRUE)

SpecOther ==
    /\ Init
    /\ [][NextSound]_vars
    /\ \A p \in JobIds : WF_vars(procs[p].owner = "B" /\ Step(p, TRUE, TRUE))

\* ---- properties ----------------------------------------------------------------

\* the handlers of u that hold a job between its shift and its end
InFlight(u) == {p \in JobIds : procs[p].owner = u /\ procs[p].pc \in DrainPcs}

\* the jobs of u that were shifted and have not ended
Dequeued(u) == {j \in JobIds : procs[j].owner = u /\ outcome[j] = "dequeued"}

\* the place of job j in the order of the pushes of u
Pos(u, j) == CHOOSE i \in DOMAIN appended[u] : appended[u][i] = j

Ended(j) == outcome[j] \in {"ok", "err"}

\* C1: for every user, in every reachable state, at most one job of that user
\* is between its dequeue and its completion or failure.
C1_AtMostOneInFlight ==
    \A u \in Users : Cardinality(InFlight(u)) <= 1 /\ Cardinality(Dequeued(u)) <= 1

\* C1 witness: a job of a user is in flight while another enqueue call of the
\* same user has reached processUserQueue and returned, its job still queued.
C1_Witness ==
    /\ failures = 0
    /\ restarts = 0
    /\ \E p, q \in JobIds :
          /\ p # q
          /\ procs[p].owner = procs[q].owner
          /\ procs[p].pc \in DrainPcs
          /\ procs[q].pc = "done"
          /\ outcome[q] = "queued"

\* C2: the jobs of one user are dequeued in the order in which they were
\* pushed: no job is dequeued after a job pushed later, no job waits in the
\* queue behind a job pushed later or while a job pushed later was dequeued,
\* and a job is dequeued only when the job dequeued before it has ended.
C2_Fifo ==
    \A u \in Users :
        LET q == userStates[u].processingQueue IN
        /\ \A i, k \in DOMAIN started[u] :
              i < k => Pos(u, started[u][i]) <= Pos(u, started[u][k])
        /\ \A i, k \in DOMAIN q : i < k => Pos(u, q[i].id) < Pos(u, q[k].id)
        /\ \A i \in DOMAIN q : \A k \in DOMAIN started[u] :
              Pos(u, started[u][k]) <= Pos(u, q[i].id)
        /\ \A k \in DOMAIN started[u] :
              k < Len(started[u]) /\ started[u][k] # started[u][Len(started[u])]
                  => outcome[started[u][k]] # "dequeued"

\* C2 witness: two jobs of one user were pushed before the first of them was
\* dequeued, and both have been dequeued.
C2_Witness ==
    \E u \in Users :
        /\ Len(started[u]) >= 2
        /\ started[u][1] # started[u][2]
        /\ expected[started[u][2]] = 2

\* C3: every job pushed onto a user's queue is eventually dequeued and run to
\* completion or failure, without any further submission, provided every
\* collaborator call returns.
C3_EventuallyRun ==
    \A j \in JobIds : (outcome[j] = "queued") ~> Ended(j)

OneShotEmpty(profile) ==
    /\ profile.singleUseReplacements = 0
    /\ profile.customCss = 0
    /\ profile.metadata.title = 0
    /\ profile.metadata.author = 0

\* C4: when a dequeued job ends, whether it succeeded or failed, the owning
\* profile's single-use rule list, style block and metadata override are empty.
C4_ClearedAfterJob ==
    [][\A j \in JobIds :
          (outcome[j] = "dequeued" /\ Ended(j)')
              => OneShotEmpty(userStates[procs[j].owner])']_vars

\* C5: a saved list of single-use rules is applied to at most one job.
C5_AppliedOnce ==
    \A i, j \in JobIds :
        (i # j /\ used[i].singleUseReplacements # 0)
            => used[i].singleUseReplacements # used[j].singleUseReplacements

\* C6: the single-use rules saved through /reemplazar are those of the next
\* job the user submits after saving them.
C6_AppliedToNext ==
    \A j \in JobIds :
        (outcome[j] # "none" /\ promised[j] # 0)
            => frozen[j].singleUseReplacements = promised[j]

\* C7: a job is executed with the options it was enqueued with, whatever the
\* user edits afterwards.
C7_Frozen ==
    \A j \in JobIds : Ended(j) => used[j] = frozen[j]

\* C8: a job enqueued by user B is run to its end even if the handlers of
\* user A, whatever they hold, never take another step.
C8_OtherUserRuns ==
    \A j \in JobIds :
        (procs[j].owner = "B" /\ outcome[j] = "queued") ~> (outcome[j] = "ok")

\* C8 witness: a job of user B has run to its end while a job of user A,
\* dequeued before it, is still in flight.
C8_Witness ==
    \E i, j \in JobIds :
        /\ i < j
        /\ procs[i].owner = "A" /\ procs[i].pc \in DrainPcs
        /\ procs[j].owner = "B" /\ outcome[j] = "ok"

\* C9: whenever no drain loop runs for a user and no enqueue call of that
\* user is in progress, the user's queue is empty.
C9_IdleEmpty ==
    \A u \in Users :
        (/\ ~userProcessingStatus[u]
         /\ \A p \in JobIds : ~(procs[p].owner = u /\ procs[p].pc \in EnqueuePcs))
            => userStates[u].processingQueue = <<>>

\* C10: the position enqueue reports for a new job is the number of jobs the
\* queue held when enqueue was called, plus one.
C10_Position ==
    \A j \in JobIds : reported[j] # -1 => reported[j] = expected[j]

\* C11: a job whose execution has begun is not in the persisted queue, so a
\* restart never loads it again.
C11_RemovedBeforeRun ==
    \A j \in JobIds : runs[j] > 0 => ~InQueueOf(disk, j)

\* C11 witness: the process restarted while a job was being executed.
C11_Witness ==
    /\ restarts > 0
    /\ \E j \in JobIds : runs[j] > 0 /\ outcome[j] = "killed"

\* the set of the elements of a sequence
Range(seq) == {seq[i] : i \in DOMAIN seq}

\* enqueue accepted job j: its db.write() resolved and the position was read
Accepted(j) == reported[j] # -1

\* job j was shifted from its queue at some time
EverDequeued(j) == \E u \in Users : j \in Range(started[u])

\* C12 (as stated): a job accepted by enqueue is in the persisted queue at
\* every moment before it has finished, so a restart before its end finds it.
C12_NotLost ==
    \A j \in JobIds : (Accepted(j) /\ ~Ended(j)) => InQueueOf(disk, j)

\* C12 (amended): a job accepted by enqueue is in the persisted queue at every
\* moment before it has been dequeued, so a restart before its dequeue finds it.
C12_NotLostBeforeDequeue ==
    \A j \in JobIds : (Accepted(j) /\ ~EverDequeued(j)) => InQueueOf(disk, j)

\* C12 witness: after a restart an accepted job that was never dequeued is in
\* the queue loaded from db.json.
C12_Witness ==
    /\ restarts > 0
    /\ \E j \in JobIds :
          Accepted(j) /\ ~EverDequeued(j) /\ InQueueOf(userStates, j)

\* C13: the execution of a job begins at most once, a job whose execution has
\* begun is in no queue, and no job is pushed twice.
C13_AtMostOnce ==
    \A j \in JobIds :
        /\ runs[j] <= 1
        /\ runs[j] = 1 => ~InQueueOf(userStates, j)
        /\ Cardinality({<<u, i>> \in Users \X (1..MaxJobs) :
                            i \in DOMAIN appended[u] /\ appended[u][i] = j}) <= 1

\* C13 witness: a job failed and the drain loop of its user has ended.
C13_Witness ==
    \E j \in JobIds :
        /\ outcome[j] = "err"
        /\ runs[j] = 1
        /\ ~userProcessingStatus[procs[j].owner]

\* C14: the jobs of a user are dequeued in the order in which their
\* submissions (document or URL messages) arrived; submissions are numbered
\* in arrival order.
C14_ArrivalOrder ==
    \A u \in Users : \A i, k \in DOMAIN started[u] :
        i < k => started[u][i] <= started[u][k]

\* the awaiting-text modes of a profile that are on
WaitingModes(profile) ==
    {m \in {"isWaitingForReplacements", "isWaitingForMetadata",
            "isWaitingForDictionaryRules"} : profile[m]}

\* C15: in every profile at most one awaiting-text mode is on.
C15_OneMode ==
    \A u \in Users : Cardinality(WaitingModes(userStates[u])) <= 1

\* ---- documents of every name ---------------------------------------------

NextDocument ==
    \/ \E name \in FileNames : SubmitDocument("A", name)
    \/ \E name \in FileNames : DocumentRejected("A", name)
    \/ \E name \in FileNames : DocumentThrows("A", name)
    \/ \E p \in JobIds, ok \in BOOLEAN, w \in BOOLEAN : Step(p, ok, w)

SpecDocument == Init /\ [][NextDocument]_vars

\* C16: a document whose extension is not a supported one creates no job, is
\* answered with a refusal, and the step that takes it leaves every queue,
\* every handler and the count of submissions as they were.
C16_Unsupported ==
    /\ [](\A p \in JobIds :
            procs[p].kind = "file"
                => toLowerCase(extname(procs[p].file)) \in allowedExtensions)
    /\ [](\A u \in Users : rejected[u].msgs = rejected[u].docs)
    /\ [][\A u \in Users :
            rejected'[u] # rejected[u]
                => /\ \A v \in Users : userStates'[v].processingQueue
                                            = userStates[v].processingQueue
                   /\ UNCHANGED <<procs, nextId, appended, disk>>]_vars

\* ---- processEpubBuffer, sendProcessedFile and the catch around them --------

\* the catch of processUserQueue without handleError: the job ends unreported
Throw_Silent(pp) == [pp EXCEPT !.stage = "failed"]

\* catch (err) { handleError(err, chatId, statusMessage) }: the job ends and
\* handleError sends one message, the unexpected-error text around err.message
Throw(pp) == [pp EXCEPT !.stage = "failed", !.errors = @ + 1]

\* catch (e) { parsingErrors.push(zipEntry.name) } of the entry's task
Caught(pp, e) ==
    [pp EXCEPT !.parsingErrors = @ \cup {e}, !.task[e] = "done"]

\* if (modified) zip.file(zipEntry.name, serializer.serializeToString(doc))
Written_Entry(pp, e, content) ==
    [pp EXCEPT !.task[e] = "done",
               !.zip[e] = IF pp.modified[e] THEN content ELSE @]

\* a buffer taken as opened whatever it holds
Opened_Always(in) == TRUE

\* await jszip.loadAsync(buffer) resolves
Opened(in) == in.opens

\* jszip.loadAsync settles: shouldTranslate takes the user's option and
\* getLanguageFromOPF is called; a buffer that does not open rejects and the
\* run ends in the catch
OpenDone ==
    /\ pipe.stage = "open"
    /\ pipe' = IF Opened(pipe.in)
               THEN [pipe EXCEPT !.stage = "language",
                                 !.shouldTranslate = pipe.in.translate]
               ELSE Throw(pipe)
    /\ UNCHANGED botVars

\* String.prototype.toLowerCase on the characters of the tags
LowerCase(s) ==
    [i \in DOMAIN s |-> CASE s[i] = "E" -> "e" [] s[i] = "S" -> "s"
                           [] s[i] = "N" -> "n" [] s[i] = "T" -> "t"
                           [] OTHER -> s[i]]

\* String.prototype.startsWith
startsWith(s, prefix) ==
    /\ Len(s) >= Len(prefix)
    /\ SubSeq(s, 1, Len(prefix)) = prefix

\* the value of shouldTranslate after the language detection:
\*   if (lang && lang.toLowerCase().startsWith('es')) shouldTranslate = false
\*   else { lang = await detectLanguageFromContent(zip);
\*          if (lang === 'spa') shouldTranslate = false }
LanguageDecision(requested, lang, franc) ==
    IF lang # NoLang /\ startsWith(LowerCase(lang), Es) THEN FALSE
    ELSE IF franc = "spa" THEN FALSE
    ELSE requested

\* the gate on the engine alone
Translating_EngineOnly(pp) == pp.in.translationEngine

\* if (shouldTranslate && options.translationEngine)
Translating(pp) == pp.shouldTranslate /\ pp.in.translationEngine

\* the language detection settles: the read of the .opf entry is awaited
\* outside any try, so its rejection leaves processEpubBuffer; otherwise
\* shouldTranslate is decided and the zip.forEach pass starts one task per
\* markup entry, each at its `await zipEntry.async('string')`
LanguageDone ==
    /\ pipe.stage = "language"
    /\ pipe' = IF pipe.in.opf.reads
               THEN [pipe EXCEPT
                        !.stage = "entries",
                        !.shouldTranslate =
                            LanguageDecision(pipe.shouldTranslate,
                                             pipe.in.opf.lang, pipe.in.franc),
                        !.task = [e \in TextEntries |-> "read"]]
               ELSE Throw([pipe EXCEPT !.collab = "opf"])
    /\ UNCHANGED botVars

\* the content of entry e is read: parseFromString, the cleaners, and either
\* the call of translateDocument or the write; the cleaners and the write
\* treat a <parsererror> document as any other document
EntryRead(e) ==
    /\ pipe.stage = "entries"
    /\ pipe.task[e] = "read"
    /\ LET in == pipe.in.entry[e]
           p1 == [pipe EXCEPT !.reads = @ \cup {e}]
           p2 == [p1 EXCEPT !.modified[e] = in.dirty]
       IN  pipe' = IF ~in.parses /\ pipe.in.strict THEN Caught(p1, e)
                   ELSE IF Translating(pipe)
                        THEN [p2 EXCEPT !.task[e] = "translate",
                                        !.invoked = @ \cup {"translate"}]
                        ELSE Written_Entry(p2, e, IF in.parses THEN "clean"
                                                  ELSE "parsererror")
    /\ UNCHANGED botVars

\* translateDocument settles: true after a translation, false when nothing
\* usable came back, and the overload error thrown on 'Too many requests';
\* on a <parsererror> document doc.body is null and createTreeWalker throws
EntryTranslated(e) ==
    /\ pipe.stage = "entries"
    /\ pipe.task[e] = "translate"
    /\ LET tr == pipe.in.entry[e].trans IN
       pipe' = CASE ~pipe.in.entry[e].parses -> Caught(pipe, e)
                 [] tr = "overload" -> Caught(pipe, e)
                 [] tr = "ok" ->
                      Written_Entry([pipe EXCEPT !.modified[e] = TRUE], e,
                                    "translated")
                 [] OTHER -> Written_Entry(pipe, e, "clean")
    /\ UNCHANGED botVars

\* the warning over parsingErrors, the repackaging and the return of
\* [currentBuffer, shouldTranslate, bookSummary]; then sendProcessedFile
\* converts when another output format is asked for, or sends
Packaged(pp) ==
    [pp EXCEPT !.warned = pp.parsingErrors,
               !.returned = [bytes |-> pp.currentBuffer,
                             wasTranslated |-> pp.shouldTranslate],
               !.stage = IF pp.in.outputFormat # "epub" THEN "convert" ELSE "send"]

\* a join that resolves with the first task that ends
PromiseAll_Race(pp) == \E e \in TextEntries : pp.task[e] = "done"

\* Promise.all(filePromises) resolves: every task has ended (no task rejects,
\* each ends in its own try or catch)
PromiseAll(pp) == \A e \in TextEntries : pp.task[e] = "done"

\* await Promise.all(filePromises) resolves: the marked images are removed;
\* with translation pending the book goes to ebook-convert
JoinDone ==
    /\ pipe.stage = "entries"
    /\ PromiseAll(pipe)
    /\ LET p1 == [pipe EXCEPT !.zip =
                      [e \in Entries |->
                          IF e \in ImageEntries /\ pipe.in.removeImages
                          THEN "removed" ELSE pipe.zip[e]]]
           p2 == [p1 EXCEPT !.currentBuffer = "zip"]
       IN  pipe' = IF Translating(pipe)
                   THEN [p2 EXCEPT !.stage = "calibre",
                                   !.invoked = @ \cup {"calibre"}]
                   ELSE Packaged(p2)
    /\ UNCHANGED botVars

\* runShellCommand('ebook-convert', ... '--read-config') of the translation
\* settles; a rejection leaves processEpubBuffer
CalibreDone(ok) ==
    /\ pipe.stage = "calibre"
    /\ pipe' = IF ok THEN Packaged([pipe EXCEPT !.currentBuffer = "calibre"])
               ELSE Throw([pipe EXCEPT !.collab = "calibre"])
    /\ UNCHANGED botVars

\* runShellCommand('ebook-convert', [tempEpubPath, tempOutputPath]) of
\* sendProcessedFile settles; a rejection is thrown on
ConvertDone(ok) ==
    /\ pipe.stage = "convert"
    /\ pipe' = IF ok THEN [pipe EXCEPT !.stage = "send"]
               ELSE Throw([pipe EXCEPT !.collab = "convert"])
    /\ UNCHANGED botVars

\* bot.sendDocument settles
SendDone(ok) ==
    /\ pipe.stage = "send"
    /\ pipe' = IF ok THEN [pipe EXCEPT !.stage = "done", !.delivered = @ + 1]
               ELSE Throw([pipe EXCEPT !.collab = "send"])
    /\ UNCHANGED botVars

InitPipeline ==
    /\ InitBot
    /\ doc = NoDoc
    /\ pipe \in {[NoPipe EXCEPT !.stage = "open", !.in = i] : i \in Inputs}

NextPipeline ==
    \/ OpenDone
    \/ LanguageDone
    \/ \E e \in TextEntries : EntryRead(e)
    \/ \E e \in TextEntries : EntryTranslated(e)
    \/ JoinDone
    \/ \E ok \in BOOLEAN : CalibreDone(ok)
    \/ \E ok \in BOOLEAN : ConvertDone(ok)
    \/ \E ok \in BOOLEAN : SendDone(ok)

SpecPipeline == InitPipeline /\ [][NextPipeline]_vars

\* entry e fails: its content does not parse, or its translation is refused
\* for overload
Failing(e) ==
    \/ ~pipe.in.entry[e].parses
    \/ Translating(pipe) /\ pipe.in.entry[e].trans = "overload"

\* the content entry e is to have after its transformation
Transformed(e) ==
    IF Translating(pipe) /\ pipe.in.entry[e].trans = "ok" THEN "translated"
    ELSE IF pipe.in.entry[e].dirty THEN "clean"
    ELSE "orig"

\* C17: entries that fail do not abort the run: once the run has passed the
\* join, the warning names exactly the entries that failed, each of them has
\* its original content and every other markup entry has its transformed
\* content; the run fails only on a buffer that does not open or on a failed
\* collaborator.
C17_ParseFailure ==
    /\ pipe.stage \in {"convert", "send", "done"}
          => /\ pipe.warned = {e \in TextEntries : Failing(e)}
             /\ \A e \in TextEntries :
                   pipe.zip[e] = IF Failing(e) THEN "orig" ELSE Transformed(e)
    /\ pipe.stage = "failed" => (~pipe.in.opens \/ pipe.collab # "none")

\* C18: when the output conversion or the whole-book translation fails, no
\* result is delivered and exactly one error message is sent.
C18_CollaboratorFailure ==
    pipe.collab \in {"calibre", "convert"}
        => pipe.stage = "failed" /\ pipe.delivered = 0 /\ pipe.errors = 1

\* C18 witness: the output conversion failed after a whole-book translation
\* that succeeded.
C18_Witness ==
    /\ pipe.collab = "convert"
    /\ "calibre" \in pipe.invoked
    /\ pipe.stage = "failed"

\* C19: an entry whose translation is refused for overload aborts the run
\* with the overload message and is not put on the warning list.
C19_Overload ==
    \A e \in TextEntries :
        (/\ pipe.task[e] = "done"
         /\ pipe.in.entry[e].parses
         /\ Translating(pipe)
         /\ pipe.in.entry[e].trans = "overload")
            => /\ e \notin pipe.parsingErrors
               /\ pipe.stage = "failed"
               /\ pipe.overloadMsgs = 1

\* C20: when the buffer does not open, the run fails with no entry read, no
\* entry task started, no entry written or removed, and nothing delivered.
C20_CorruptArchive ==
    (~pipe.in.opens /\ pipe.stage \notin {"idle", "open"})
        => /\ pipe.stage = "failed"
           /\ pipe.reads = {}
           /\ \A e \in TextEntries : pipe.task[e] = "none"
           /\ \A e \in Entries : pipe.zip[e] = "orig"
           /\ pipe.delivered = 0

\* C20 witness: a run on a buffer that does not open has ended.
C20_Witness ==
    /\ ~pipe.in.opens
    /\ pipe.stage = "failed"
    /\ pipe.errors = 1

\* C21: the images are removed and the container is serialized only when
\* every entry task has ended, whether it wrote its entry, left it as it was
\* or ended in its catch.
C21_Barrier ==
    (\/ pipe.stage \in {"calibre", "convert", "send", "done"}
     \/ \E e \in ImageEntries : pipe.zip[e] = "removed")
        => \A e \in TextEntries : pipe.task[e] = "done"

\* C21 witness: the images were removed after one task ended in its catch and
\* another left its entry as it was.
C21_Witness ==
    /\ \E e \in ImageEntries : pipe.zip[e] = "removed"
    /\ pipe.parsingErrors # {}
    /\ \E e \in TextEntries :
          /\ e \notin pipe.parsingErrors
          /\ pipe.task[e] = "done"
          /\ pipe.zip[e] = "orig"

TranslatedBytes ==
    \/ pipe.returned.bytes = "calibre"
    \/ \E e \in TextEntries : pipe.zip[e] = "translated"

\* C23: the flag processEpubBuffer returns is true exactly when a translation
\* collaborator was invoked in the run and its output is in the returned
\* bytes.
C23_TranslatedFlag ==
    pipe.stage \in {"convert", "send", "done"}
        => (pipe.returned.wasTranslated
                <=> (pipe.invoked # {} /\ TranslatedBytes))

\* the declared language denotes Spanish: its primary subtag is es
DenotesSpanish(lang) == LowerCase(lang) = Es

\* C28: once the language is decided, the decision is 'do not translate' when
\* the declared language denotes Spanish or the content analysis gives Spanish,
\* and the requested value in every other case, also when no sample text was
\* read; and no run ends in the language detection.
C28_LanguageDecision ==
    /\ pipe.stage \in {"entries", "calibre", "convert", "send", "done"}
          => pipe.shouldTranslate =
                IF DenotesSpanish(pipe.in.opf.lang) \/ pipe.in.franc = "spa"
                THEN FALSE ELSE pipe.in.translate
    /\ pipe.collab # "opf"

\* ---- the download of a document, step by step ---------------------------------
\* bot.on('document') between the receipt of the document and addJobToQueue:
\* the fetch of the file is given 120 s by a timer that is cleared as soon as
\* fetch resolves, that is when the response headers are there; the body is
\* read afterwards by response.arrayBuffer().

notDownload == <<userStates, disk, userProcessingStatus, nextId, restarts,
                 failures, edits, saves, hist, offer, runs, rejected, temp,
                 told, doc, pipe>>

\* sendMessage and getFile have settled: setTimeout(() => controller.abort(),
\* 120000) and fetch(fileUrl, { signal })
FetchStart(p) ==
    /\ procs[p].pc = "download"
    /\ dl[p].timer = "none"
    /\ dl' = [dl EXCEPT ![p].timer = "armed"]
    /\ UNCHANGED <<procs, notDownload>>

\* fetch resolves with the response: clearTimeout(timeoutId), and
\* response.arrayBuffer() is awaited
FetchDone(p) ==
    /\ procs[p].pc = "download"
    /\ dl[p].timer = "armed"
    /\ dl' = [dl EXCEPT ![p].timer = "cleared"]
    /\ UNCHANGED <<procs, notDownload>>

\* the 120 s pass before fetch resolves: controller.abort() rejects fetch with
\* an AbortError, the catch calls handleError, which sends the timeout text;
\* nothing is enqueued
FetchTimeout(p) ==
    /\ procs[p].pc = "download"
    /\ dl[p].timer = "armed"
    /\ dl' = [dl EXCEPT ![p].timer = "fired", ![p].overdue = TRUE,
                        ![p].timeoutMsgs = @ + 1]
    /\ procs' = [procs EXCEPT ![p].pc = "done"]
    /\ UNCHANGED notDownload

\* the 120 s pass while the body is read: the timer is cleared, nothing runs
DeadlinePasses(p) ==
    /\ procs[p].pc = "download"
    /\ dl[p].timer = "cleared"
    /\ ~dl[p].overdue
    /\ dl' = [dl EXCEPT ![p].overdue = TRUE]
    /\ UNCHANGED <<procs, notDownload>>

\* response.arrayBuffer() (and the ingest conversion) settles
BodyDone(p, ok, w) ==
    /\ dl[p].timer = "cleared"
    /\ DownloadDone(p, ok, w)

\* the steps of addJobToQueue and processUserQueue when no call fails
StepQueue(p) ==
    \/ EnqWriteDone(p)
    \/ EnqSendDone(p, TRUE, TRUE)
    \/ DrainWriteDone(p, TRUE)
    \/ DrainSendDone(p, TRUE, TRUE)
    \/ DeliverDone(p, TRUE, TRUE)
    \/ ClearWriteDone(p, TRUE)

\* a job of a document has its bytes; the job of a URL first downloads the
\* story: await runShellCommand('ebook-convert', [recipePath, tempEpubPath,
\* '--verbose']), which settles when the child process closes
HasBytes(p) == procs[p].kind = "file"

NextDownload ==
    \/ \E u \in Users : SubmitUrl(u, TRUE)
    \/ \E u \in Users : SubmitDocument(u, Book)
    \/ \E p \in JobIds : FetchStart(p)
    \/ \E p \in JobIds : FetchDone(p)
    \/ \E p \in JobIds : FetchTimeout(p)
    \/ \E p \in JobIds : DeadlinePasses(p)
    \/ \E p \in JobIds : BodyDone(p, TRUE, TRUE)
    \/ \E p \in JobIds : StepQueue(p)
    \/ \E p \in JobIds : PipelineDone(p, TRUE, TRUE)

\* Every continuation runs once its awaited call has settled, a timer that is
\* armed fires unless it is cleared first, and the calls to Telegram and to
\* the file system settle.  Nothing obliges a download to end: neither the
\* body of a document nor the child process that fetches a story.
SpecDownload ==
    /\ Init
    /\ [][NextDownload]_vars
    /\ \A p \in JobIds :
          /\ WF_vars(FetchStart(p))
          /\ WF_vars(FetchDone(p) \/ FetchTimeout(p))
          /\ WF_vars(StepQueue(p))
          /\ WF_vars(HasBytes(p) /\ PipelineDone(p, TRUE, TRUE))

\* C26: a document whose download was in flight when its 120 s passed is
\* never enqueued, and once its handler has ended one timeout message was
\* sent for it.
C26_Timeout ==
    \A p \in JobIds :
        dl[p].overdue
            => /\ \A u \in Users : p \notin Range(appended[u])
               /\ procs[p].pc = "done" => dl[p].timeoutMsgs = 1

\* C27: no download lasts for ever: the download of a document ends, and a
\* drain loop, whose job may download a story, ends.
C27_Bounded ==
    /\ \A p \in JobIds : (procs[p].pc = "download") ~> (procs[p].pc # "download")
    /\ \A u \in Users : userProcessingStatus[u] ~> ~userProcessingStatus[u]

\* ---- temporary files -----------------------------------------------------------
\* A path is the sequence of its parts.  Each handler below is the part of a
\* job between the creation of its first temporary file and its cleanup.

notTemp == <<userStates, disk, userProcessingStatus, procs, nextId, restarts,
             failures, edits, saves, hist, offer, runs, rejected, dl, told,
             doc, pipe>>

\* file names (without extension) of the documents and titles of the stories
BaseNames == {"a", "b"}

\* a handler of user u may start
Free(u) ==
    /\ temp.op[u].stage \in {"idle", "done"}
    /\ temp.ops < MaxOps

Begin(u, kind, paths, made) ==
    [temp EXCEPT !.op[u] = [kind |-> kind, stage |-> "convert",
                            paths |-> paths, made |-> made],
                 !.files = @ \cup made,
                 !.ops = @ + 1]

\* the `finally` of a handler: every path is unlinked, a failed unlink of a
\* file that is not there is only logged
Unlinked(u) ==
    [temp EXCEPT !.op[u].stage = "done",
                 !.files = @ \ temp.op[u].paths]

\* the handler is left by an exception that no `finally` follows
Left(u) == [temp EXCEPT !.op[u].stage = "done"]

\* bot.on('document'), a document that is no EPUB:
\*   inputPath = path.join('./temp', file.file_name); epubPath = inputPath
\*   with the extension replaced; fs.writeFile(inputPath, fileBuffer)
IngestStart(u, base) ==
    /\ Free(u)
    /\ temp' = Begin(u, "ingest",
                     {<<"temp", base, "pdf">>, <<"temp", base, "epub">>},
                     {<<"temp", base, "pdf">>})
    /\ UNCHANGED notTemp

\* ebook-convert settles, with the EPUB written or not; finally both unlinked
IngestDone(u, ok) ==
    /\ temp.op[u].kind = "ingest"
    /\ temp.op[u].stage = "convert"
    /\ temp' = Unlinked(u)
    /\ UNCHANGED notTemp

\* processUserQueue, a URL job not in the cache:
\*   tempEpubPath = ./temp/download_${Date.now()}.epub
\*   recipePath = ./recipes/recipe_${Date.now()}.recipe
\*   createFanFicFareRecipe writes the recipe
StoryStart(u) ==
    /\ Free(u)
    /\ temp' = Begin(u, "story",
                     {<<"temp", "download", temp.now>>,
                      <<"recipes", "recipe", temp.now>>},
                     {<<"recipes", "recipe", temp.now>>})
    /\ UNCHANGED notTemp

\* ebook-convert settles: after a success the story is read and cached and
\* both files are unlinked; a failure is thrown on to the catch of the job
StoryDone(u, ok) ==
    /\ temp.op[u].kind = "story"
    /\ temp.op[u].stage = "convert"
    /\ temp' = IF ok THEN Unlinked(u) ELSE Left(u)
    /\ UNCHANGED notTemp

\* processEpubBuffer, whole-book translation:
\*   inputPath, outputPath, configPath named after Date.now();
\*   fs.writeFile(inputPath, currentBuffer); createTranslationConfig, which
\*   throws when the engine is DeepL and DEEPL_KEY is not set, before the try
TranslationStart(u, key) ==
    /\ Free(u)
    /\ LET in == <<"temp", "pre-translation", temp.now>>
           out == <<"temp", "translated", temp.now>>
           cfg == <<"temp", "translate-config", temp.now>>
           t1 == Begin(u, "translation", {in, out, cfg},
                       IF key THEN {in, cfg} ELSE {in})
       IN  temp' = IF key THEN t1 ELSE [t1 EXCEPT !.op[u].stage = "done"]
    /\ UNCHANGED notTemp

\* ebook-convert settles; finally the three files are unlinked
TranslationDone(u, ok) ==
    /\ temp.op[u].kind = "translation"
    /\ temp.op[u].stage = "convert"
    /\ temp' = Unlinked(u)
    /\ UNCHANGED notTemp

\* sendProcessedFile, an output format that is not EPUB:
\*   tempEpubPath = ./temp/${finalFileNameBase}_temp.epub
\*   tempOutputPath = ./temp/${finalFileNameBase}_temp.${outputFormat}
\*   fs.writeFile(tempEpubPath, processedBuffer)
OutputStart(u, base) ==
    /\ Free(u)
    /\ temp' = Begin(u, "output",
                     {<<"temp", base, "_temp", "epub">>,
                      <<"temp", base, "_temp", "pdf">>},
                     {<<"temp", base, "_temp", "epub">>})
    /\ UNCHANGED notTemp

\* ebook-convert settles; finally both files are unlinked
OutputDone(u, ok) ==
    /\ temp.op[u].kind = "output"
    /\ temp.op[u].stage = "convert"
    /\ temp' = Unlinked(u)
    /\ UNCHANGED notTemp

\* a millisecond passes
Tick ==
    /\ temp.now < MaxClock
    /\ temp' = [temp EXCEPT !.now = @ + 1]
    /\ UNCHANGED notTemp

NextTemp ==
    \/ \E u \in Users, base \in BaseNames : IngestStart(u, base)
    \/ \E u \in Users, ok \in BOOLEAN : IngestDone(u, ok)
    \/ \E u \in Users : StoryStart(u)
    \/ \E u \in Users, ok \in BOOLEAN : StoryDone(u, ok)
    \/ \E u \in Users, key \in BOOLEAN : TranslationStart(u, key)
    \/ \E u \in Users, ok \in BOOLEAN : TranslationDone(u, ok)
    \/ \E u \in Users, base \in BaseNames : OutputStart(u, base)
    \/ \E u \in Users, ok \in BOOLEAN : OutputDone(u, ok)
    \/ Tick

SpecTemp == Init /\ [][NextTemp]_vars

\* C24: when a handler has ended, by its end or by an exception, none of the
\* temporary files it created exists.
C24_NoTempLeft ==
    \A u \in Users :
        temp.op[u].stage = "done" => temp.op[u].made \cap temp.files = {}

\* C25: two handlers that run at the same time use no path in common.
C25_OwnPaths ==
    \A u, v \in Users :
        (/\ u # v
         /\ temp.op[u].stage = "convert"
         /\ temp.op[v].stage = "convert")
            => temp.op[u].paths \cap temp.op[v].paths = {}

\* C29: the step in which a running job fails dequeues the job at the head of
\* the same user's queue, if there is one, and leaves the drain loop running.
C29_ContinuesAfterFailure ==
    [][\A j \in JobIds :
          (outcome[j] = "dequeued" /\ outcome'[j] = "err")
              => LET u == procs[j].owner
                     q == userStates[u].processingQueue
                 IN  q # <<>>
                        => /\ outcome'[q[1].id] = "dequeued"
                           /\ started'[u] = Append(started[u], q[1].id)
                           /\ userProcessingStatus'[u]]_vars

\* C29 witness: a job queued behind a job that failed has run to its end.
C29_Witness ==
    \E u \in Users :
        /\ Len(started[u]) = 2
        /\ outcome[started[u][1]] = "err"
        /\ outcome[started[u][2]] = "ok"
        /\ expected[started[u][2]] = 2

\* the profile `new` differs from `old` in nothing but the queue and the
\* one-shot fields, and each one-shot field is as it was or cleared
OnlyQueueAndCleanup(old, new) ==
    /\ new = [old EXCEPT !.processingQueue = new.processingQueue,
                         !.singleUseReplacements = new.singleUseReplacements,
                         !.customCss = new.customCss,
                         !.metadata = new.metadata]
    /\ new.singleUseReplacements \in {old.singleUseReplacements, 0}
    /\ new.customCss \in {old.customCss, 0}
    /\ new.metadata \in {old.metadata, EmptyMetadata}

\* C30: a step of the drain loop changes no field of the owning profile other
\* than the queue and the one-shot state that the cleanup clears; it changes no
\* persistent option and writes nothing into the profile's metadata override.
C30_ProfileFrame ==
    [][\A p \in JobIds :
          (/\ procs[p].pc \in DrainPcs
           /\ procs'[p].pc # procs[p].pc
           /\ restarts' = restarts)
              => OnlyQueueAndCleanup(userStates[procs[p].owner],
                                     userStates'[procs[p].owner])]_vars

\* C31: for every job that was dequeued and whose turn in the drain loop is
\* over, exactly one report went to the user: the result document or an error
\* message, never both and never neither.
C31_OneReport ==
    \A j \in JobIds :
        outcome[j] \in {"ok", "err", "dropped"}
            => \/ told[j].docs = 1 /\ told[j].errs = 0
               \/ told[j].docs = 0 /\ told[j].errs = 1

\* ---- the toggle callback, whatever its identifier ---------------------------
\* data.match(/^toggle_(\w+)$/) takes any word as the key: an option of the
\* keyboard, another field of the profile, or the queue

ToggleKeys == {"removeImages", "isWaitingForMetadata", "processingQueue"}

\* the keys generateOptionsKeyboard offers (removeImages stands for them)
KnownOptions == {"removeImages"}

\* userOptions[optionKey] = !userOptions[optionKey]: a boolean is negated; the
\* queue, an array, becomes false. A queue that is false reads as an empty one
\* wherever it is read: its length is undefined, so the `while` test fails, and
\* addJobToQueue's `||= []` replaces it by a new array
Negated(profile, key) ==
    IF key = "processingQueue"
    THEN [profile EXCEPT !.processingQueue = <<>>]
    ELSE [profile EXCEPT ![key] = ~@]

\* callback toggle_<key>: the profile is created if missing, the field is
\* negated and db.write() is called
ToggleCallback(u, key, w) ==
    /\ Edit(w)
    /\ LET us1 == EnsureProfile(userStates, u)
           us2 == [us1 EXCEPT ![u] = Negated(@, key)]
       IN  /\ userStates' = us2
           /\ disk' = Written(us2, w)
    /\ UNCHANGED <<userProcessingStatus, procs, nextId, restarts, saves, hist, offer>>

NextToggle ==
    \/ \E w \in BOOLEAN : SubmitUrl("A", w)
    \/ SubmitDocument("A", Book)
    \/ \E p \in JobIds, ok \in BOOLEAN, w \in BOOLEAN : Step(p, ok, w)
    \/ \E key \in ToggleKeys, w \in BOOLEAN : ToggleCallback("A", key, w)

SpecToggle == Init /\ [][NextToggle]_vars

\* C32: a toggle callback changes nothing of the profile but a known option: one
\* whose identifier is not a known option leaves the profile, its queue
\* included, as it was.
C32_UnknownToggle ==
    [][edits' # edits
          => \A u \in Users :
                LET old == EnsureProfile(userStates, u)[u]
                    new == userStates'[u]
                IN  new # userStates[u]
                       => \E known \in [KnownOptions -> BOOLEAN] :
                             new = [f \in DOMAIN old |->
                                       IF f \in KnownOptions THEN known[f]
                                       ELSE old[f]]]_vars

\* C33: in every profile the list of active dictionary names holds no name
\* twice and only names of dictionaries the profile has.
C33_ActiveSubset ==
    \A u \in Users :
        LET names == userStates[u].activeDictionaries.names IN
        /\ \A i, k \in DOMAIN names : names[i] = names[k] => i = k
        /\ \A i \in DOMAIN names :
              userStates[u].userDictionaries.rules[names[i]] >= 0

\* ---- src/cleaners.js: the DOM of one entry and its cleaners -----------------
\* A document is the sequence of the children of its root, and an element holds
\* the sequence of its own children. A text is the sequence of its characters;
\* the characters that are not ASCII go by their entity names, and the two
\* watermark phrases are written as one character each.

notDoc == <<userStates, disk, userProcessingStatus, procs, nextId, restarts,
            failures, edits, saves, hist, offer, runs, rejected, dl, temp, told,
            pipe>>

TextNode(v) == [tag |-> "#text", value |-> v, kids |-> <<>>]

Element(tag, kids) == [tag |-> tag, value |-> <<>>, kids |-> kids]

\* const watermarks = ["Machine Translated by Google", "OceanoPDF.com"]
watermarks == << <<"G">>, <<"O">> >>

\* periodQuoteRegex = /\.["”]/g: the characters that may follow the period
periodQuote == {"quot", "rdquo"}

\* allQuotesRegex: the straight and the typographic quotes and the guillemets
allQuotes == {"quot", "apos", "ldquo", "rdquo", "lsquo", "rsquo", "laquo", "raquo"}

\* String.prototype.includes
includes(s, pat) ==
    \E i \in 1..(Len(s) + 1) :
        i + Len(pat) - 1 <= Len(s) /\ SubSeq(s, i, i + Len(pat) - 1) = pat

\* the replacement text of String.prototype.replaceAll as it is expanded for
\* one match: $$ gives a dollar sign and $& the matched text (the rules drawn
\* below hold no other $ form)
RECURSIVE GetSubstitution(_, _, _)
GetSubstitution(rep, k, matched) ==
    IF k > Len(rep) THEN <<>>
    ELSE IF rep[k] = "$" /\ k < Len(rep) /\ rep[k + 1] = "$"
    THEN <<"$">> \o GetSubstitution(rep, k + 2, matched)
    ELSE IF rep[k] = "$" /\ k < Len(rep) /\ rep[k + 1] = "&"
    THEN matched \o GetSubstitution(rep, k + 2, matched)
    ELSE <<rep[k]>> \o GetSubstitution(rep, k + 1, matched)

\* String.prototype.replaceAll(pat, rep) with a string pattern that is not
\* empty: the matches are found from left to right and do not overlap
RECURSIVE ReplaceFrom(_, _, _, _)
ReplaceFrom(s, i, pat, rep) ==
    IF i > Len(s) THEN <<>>
    ELSE IF i + Len(pat) - 1 <= Len(s) /\ SubSeq(s, i, i + Len(pat) - 1) = pat
    THEN GetSubstitution(rep, 1, pat) \o ReplaceFrom(s, i + Len(pat), pat, rep)
    ELSE <<s[i]>> \o ReplaceFrom(s, i + 1, pat, rep)

replaceAll(s, pat, rep) == ReplaceFrom(s, 1, pat, rep)

\* .replace(periodQuoteRegex, ' —')
RECURSIVE ReplacePeriodQuote(_, _)
ReplacePeriodQuote(s, i) ==
    IF i > Len(s) THEN <<>>
    ELSE IF s[i] = "." /\ i < Len(s) /\ s[i + 1] \in periodQuote
    THEN <<" ", "mdash">> \o ReplacePeriodQuote(s, i + 2)
    ELSE <<s[i]>> \o ReplacePeriodQuote(s, i + 1)

\* .replace(allQuotesRegex, '—')
ReplaceQuotes(s) == [i \in DOMAIN s |-> IF s[i] \in allQuotes THEN "mdash" ELSE s[i]]

\* the two replacements the other way round
FixPunctuation_QuotesFirst(s) == ReplacePeriodQuote(ReplaceQuotes(s), 1)

\* newText.replace(periodQuoteRegex, ' —').replace(allQuotesRegex, '—')
FixPunctuation(s) == ReplaceQuotes(ReplacePeriodQuote(s, 1))

\* .replace(/ +/g, ' '): every run of spaces becomes one space
RECURSIVE FixSpacing(_, _)
FixSpacing(s, i) ==
    IF i > Len(s) THEN <<>>
    ELSE IF s[i] = " " /\ i > 1 /\ s[i - 1] = " " THEN FixSpacing(s, i + 1)
    ELSE <<s[i]>> \o FixSpacing(s, i + 1)

\* allReplacements: the single-use rules, then the rules of every active
\* dictionary that options.userDictionaries has, in the order of the names
RECURSIVE DictionaryRules(_, _, _)
DictionaryRules(o, names, k) ==
    IF k > Len(names) THEN <<>>
    ELSE (IF names[k] \in DOMAIN o.userDictionaries
          THEN o.userDictionaries[names[k]] ELSE <<>>)
         \o DictionaryRules(o, names, k + 1)

allReplacements(o) ==
    o.singleUseReplacements \o DictionaryRules(o, o.activeDictionaries, 1)

\* for (const rule of allReplacements) newText = newText.replaceAll(...)
RECURSIVE ApplyRules(_, _, _)
ApplyRules(s, rules, k) ==
    IF k > Len(rules) THEN s
    ELSE ApplyRules(replaceAll(s, rules[k].original, rules[k].replacement),
                    rules, k + 1)

\* the body of the walker's loop for one text node: newText and textModified
Rewritten(value, o) ==
    LET w1 == IF o.removeGoogle /\ includes(value, watermarks[1])
              THEN replaceAll(value, watermarks[1], <<>>) ELSE value
        w2 == IF o.removeGoogle /\ includes(w1, watermarks[2])
              THEN replaceAll(w1, watermarks[2], <<>>) ELSE w1
        m1 == o.removeGoogle
                 /\ (includes(value, watermarks[1]) \/ includes(w1, watermarks[2]))
        pt == IF o.fixPunctuation THEN FixPunctuation(w2) ELSE w2
        m2 == m1 \/ (o.fixPunctuation /\ pt # value)
        double == o.fixSpacing /\ includes(pt, <<" ", " ">>)
        sp == IF double THEN FixSpacing(pt, 1) ELSE pt
        m3 == m2 \/ double
        rules == allReplacements(o)
        rt == ApplyRules(sp, rules, 1)
        m4 == m3 \/ (Len(rules) > 0 /\ rt # sp)
    IN  IF value = <<>> THEN [newText |-> value, textModified |-> FALSE]
        ELSE [newText |-> rt, textModified |-> m4]

\* the text nodes in the order the TreeWalker visits them
RECURSIVE TextNodes(_)
TextNodes(nodes) ==
    IF nodes = <<>> THEN <<>>
    ELSE (IF Head(nodes).tag = "#text" THEN <<Head(nodes).value>>
          ELSE TextNodes(Head(nodes).kids))
         \o TextNodes(Tail(nodes))

\* if (textModified) node.nodeValue = newText, for every text node
RECURSIVE WrittenBack(_, _)
WrittenBack(nodes, o) ==
    [i \in DOMAIN nodes |->
        IF nodes[i].tag = "#text"
        THEN [nodes[i] EXCEPT !.value =
                 IF Rewritten(@, o).textModified THEN Rewritten(@, o).newText
                 ELSE @]
        ELSE [nodes[i] EXCEPT !.kids = WrittenBack(@, o)]]

\* cleanTextNodes(doc, options, window): the document after it and the value
\* it returns
cleanTextNodes(nodes, o) ==
    [body |-> WrittenBack(nodes, o),
     returned |-> \E i \in DOMAIN TextNodes(nodes) :
                     Rewritten(TextNodes(nodes)[i], o).textModified]

\* ---- cleanTextNodes on the documents of a bounded set -------------------------

\* the characters of the text nodes
TextChars == {"a", "A", " ", ".", "quot", "ldquo", "G"}

Texts(n) == UNION {[1..k -> TextChars] : k \in 0..n}

\* documents of one or two text nodes holding MaxLen characters at most
TextBodies ==
    {<<TextNode(t)>> : t \in Texts(MaxLen)}
        \cup {<<TextNode(t[1]), TextNode(t[2])>> :
                 t \in {x \in Texts(MaxLen) \X Texts(MaxLen) :
                           Len(x[1]) + Len(x[2]) <= MaxLen}}

\* rules as the text listener parses them: an original that is not empty
Rule(original, replacement) == [original |-> original, replacement |-> replacement]

RuleLists ==
    {<<>>,
     <<Rule(<<"a">>, <<"A">>), Rule(<<"A">>, <<"b">>)>>,
     <<Rule(<<"A">>, <<"b">>), Rule(<<"a">>, <<"A">>)>>,
     <<Rule(<<"a">>, <<"$", "&">>)>>,
     <<Rule(<<"a">>, <<"a", "G">>)>>}

\* the dictionaries of the profile, and the lists of active names: "z" is the
\* name of no dictionary
Dictionaries ==
    [x |-> <<Rule(<<"A">>, <<"a">>)>>, y |-> <<Rule(<<".">>, <<"A">>)>>]

ActiveLists == {<<>>, <<"y", "z", "x">>}

TextOptions ==
    [removeGoogle : BOOLEAN, fixPunctuation : BOOLEAN, fixSpacing : BOOLEAN,
     singleUseReplacements : RuleLists, userDictionaries : {Dictionaries},
     activeDictionaries : ActiveLists]

InitText ==
    /\ InitBot
    /\ pipe = NoPipe
    /\ doc \in {[stage |-> "parsed", in |-> b, options |-> o, body |-> b,
                 returned |-> FALSE] : b \in TextBodies, o \in TextOptions}

\* if (cleanTextNodes(doc, textOptions, window)) modified = true
CleanText ==
    /\ doc.stage = "parsed"
    /\ doc' = [doc EXCEPT !.stage = "cleaned",
                          !.body = cleanTextNodes(doc.body, doc.options).body,
                          !.returned = cleanTextNodes(doc.body, doc.options).returned]
    /\ UNCHANGED notDoc

NextText == CleanText

SpecText == InitText /\ [][NextText]_vars

\* C34: cleanTextNodes changes the value of a text node only by writing a value
\* that differs from the one it had, and it returns true exactly when the value
\* of at least one text node is different after the call.
C34_ChangedIffAltered ==
    doc.stage = "cleaned"
        => (doc.returned <=> TextNodes(doc.body) # TextNodes(doc.in))

\* every occurrence of pat in s, found from left to right, replaced by rep as
\* it is written
RECURSIVE LiteralReplace(_, _, _)
LiteralReplace(s, pat, rep) ==
    IF Len(s) < Len(pat) THEN s
    ELSE IF SubSeq(s, 1, Len(pat)) = pat
    THEN rep \o LiteralReplace(SubSeq(s, Len(pat) + 1, Len(s)), pat, rep)
    ELSE <<Head(s)>> \o LiteralReplace(Tail(s), pat, rep)

\* the rules in the order of application: the single-use rules, then those of
\* each active dictionary
RECURSIVE RulesInOrder(_, _)
RulesInOrder(o, names) ==
    IF names = <<>> THEN o.singleUseReplacements
    ELSE RulesInOrder(o, SubSeq(names, 1, Len(names) - 1))
         \o (IF names[Len(names)] \in DOMAIN o.userDictionaries
             THEN o.userDictionaries[names[Len(names)]] ELSE <<>>)

RECURSIVE LiteralRules(_, _)
LiteralRules(s, rules) ==
    IF rules = <<>> THEN s
    ELSE LiteralRules(LiteralReplace(s, Head(rules).original, Head(rules).replacement),
                      Tail(rules))

\* the options without any replacement rule
NoRules(o) == [o EXCEPT !.singleUseReplacements = <<>>, !.activeDictionaries = <<>>]

\* C35: the value of every text node after cleanTextNodes is its value after
\* watermark removal, punctuation fix and spacing fix, in which the rules were
\* applied one after the other (the single-use rules in list order, then those
\* of each active dictionary in list order), each replacing every occurrence of
\* its original text, taken literally and case-sensitively, by its replacement
\* text, taken literally.
C35_LiteralRulesInOrder ==
    doc.stage = "cleaned"
        => \A i \in DOMAIN TextNodes(doc.in) :
              TextNodes(doc.body)[i]
                  = LiteralRules(Rewritten(TextNodes(doc.in)[i], NoRules(doc.options)).newText,
                                 RulesInOrder(doc.options, doc.options.activeDictionaries))

\* the text read once from left to right: a period followed by a closing double
\* quote gives a space and an em dash, any other quote character an em dash
RECURSIVE Punctuated(_)
Punctuated(s) ==
    IF s = <<>> THEN <<>>
    ELSE IF Head(s) = "." /\ Len(s) >= 2 /\ s[2] \in {"quot", "rdquo"}
    THEN <<" ", "mdash">> \o Punctuated(SubSeq(s, 3, Len(s)))
    ELSE IF Head(s) \in allQuotes
    THEN <<"mdash">> \o Punctuated(Tail(s))
    ELSE <<Head(s)>> \o Punctuated(Tail(s))

\* the options with the watermark step alone, and with the spacing step alone
OnlyWatermark(o) == [NoRules(o) EXCEPT !.fixPunctuation = FALSE, !.fixSpacing = FALSE]

OnlySpacing(o) == [NoRules(o) EXCEPT !.removeGoogle = FALSE, !.fixPunctuation = FALSE]

HasQuote(s) == \E i \in DOMAIN s : s[i] \in allQuotes

\* C36: with the punctuation fix on and no replacement rule, the punctuation
\* step turns every period followed by a closing double quote into a space and
\* an em dash and every other quote character into an em dash (between the
\* watermark step and the spacing step, where these are on), and no text node
\* holds a quote character afterwards.
C36_Punctuation ==
    (/\ doc.stage = "cleaned"
     /\ doc.options.fixPunctuation
     /\ allReplacements(doc.options) = <<>>)
        => \A i \in DOMAIN TextNodes(doc.in) :
              LET before == Rewritten(TextNodes(doc.in)[i], OnlyWatermark(doc.options)).newText
                  after == TextNodes(doc.body)[i]
              IN  /\ after = Rewritten(Punctuated(before), OnlySpacing(doc.options)).newText
                  /\ ~HasQuote(after)

\* C36 witness: a text node with a period before a closing double quote and
\* with another quote character was cleaned with the punctuation fix alone.
C36_Witness ==
    /\ doc.stage = "cleaned"
    /\ doc.options.fixPunctuation
    /\ ~doc.options.removeGoogle
    /\ ~doc.options.fixSpacing
    /\ allReplacements(doc.options) = <<>>
    /\ TextNodes(doc.in) = << <<"ldquo", ".", "quot">> >>
    /\ TextNodes(doc.body) = << <<"mdash", " ", "mdash">> >>
    /\ doc.returned

\* ---- cleanImages and cleanEmptyParagraphs ------------------------------------

\* some element of `nodes` or below them has a tag of `tags`:
\* doc.querySelectorAll(tag).length > 0
RECURSIVE querySelectorAll(_, _)
querySelectorAll(nodes, tags) ==
    \E i \in DOMAIN nodes :
        nodes[i].tag \in tags \/ querySelectorAll(nodes[i].kids, tags)

\* tags.forEach(el => el.remove())
RECURSIVE Removed(_, _)
Removed(nodes, tags) ==
    IF nodes = <<>> THEN <<>>
    ELSE IF Head(nodes).tag \in tags THEN Removed(Tail(nodes), tags)
    ELSE <<[Head(nodes) EXCEPT !.kids = Removed(@, tags)]>>
         \o Removed(Tail(nodes), tags)

\* the stripper that takes out the img elements only
cleanImages_ImgOnly(nodes) ==
    IF ~querySelectorAll(nodes, {"img"}) /\ ~querySelectorAll(nodes, {"image"})
    THEN [body |-> nodes, returned |-> FALSE]
    ELSE [body |-> Removed(nodes, {"img"}), returned |-> TRUE]

\* cleanImages(doc): the document after it and the value it returns
cleanImages(nodes) ==
    IF ~querySelectorAll(nodes, {"img"}) /\ ~querySelectorAll(nodes, {"image"})
    THEN [body |-> nodes, returned |-> FALSE]
    ELSE [body |-> Removed(Removed(nodes, {"img"}), {"image"}), returned |-> TRUE]

\* the white space String.prototype.trim strips, among the characters used
WhiteSpace == {" ", "nbsp"}

\* String.prototype.trim
RECURSIVE trim(_)
trim(s) ==
    IF s = <<>> THEN s
    ELSE IF Head(s) \in WhiteSpace THEN trim(Tail(s))
    ELSE IF s[Len(s)] \in WhiteSpace THEN trim(SubSeq(s, 1, Len(s) - 1))
    ELSE s

\* node.textContent: the text of the descendants, joined
RECURSIVE textContent(_)
textContent(nodes) ==
    IF nodes = <<>> THEN <<>>
    ELSE (IF Head(nodes).tag = "#text" THEN Head(nodes).value
          ELSE textContent(Head(nodes).kids))
         \o textContent(Tail(nodes))

\* p.firstElementChild === null
NoElementChild(n) == \A k \in DOMAIN n.kids : n.kids[k].tag = "#text"

\* the filter without its test of the children
IsEmptyParagraph_TextOnly(n) ==
    n.tag = "p" /\ trim(textContent(n.kids)) = <<>>

\* the filter of cleanEmptyParagraphs:
\* p.textContent.trim() === '' && p.firstElementChild === null
IsEmptyParagraph(n) ==
    n.tag = "p" /\ trim(textContent(n.kids)) = <<>> /\ NoElementChild(n)

RECURSIVE AnyEmptyParagraph(_)
AnyEmptyParagraph(nodes) ==
    \E i \in DOMAIN nodes :
        IsEmptyParagraph(nodes[i]) \/ AnyEmptyParagraph(nodes[i].kids)

\* emptyParagraphs.forEach(p => p.remove())
RECURSIVE RemovedEmpty(_)
RemovedEmpty(nodes) ==
    IF nodes = <<>> THEN <<>>
    ELSE IF IsEmptyParagraph(Head(nodes)) THEN RemovedEmpty(Tail(nodes))
    ELSE <<[Head(nodes) EXCEPT !.kids = RemovedEmpty(@)]>>
         \o RemovedEmpty(Tail(nodes))

\* cleanEmptyParagraphs(doc): the document after it and the value it returns
cleanEmptyParagraphs(nodes) ==
    IF ~AnyEmptyParagraph(nodes) THEN [body |-> nodes, returned |-> FALSE]
    ELSE [body |-> RemovedEmpty(nodes), returned |-> TRUE]

NotRun(nodes) == [body |-> nodes, returned |-> FALSE]

\* the two cleaners called the other way round
Cleaners_ParagraphsFirst(nodes, o) ==
    LET paragraphs == IF o.removeEmptyP THEN cleanEmptyParagraphs(nodes)
                      ELSE NotRun(nodes)
        images == IF o.removeImages THEN cleanImages(paragraphs.body)
                  ELSE NotRun(paragraphs.body)
    IN  [body |-> images.body, returned |-> images.returned \/ paragraphs.returned]

\* if (options.removeImages && cleanImages(doc)) modified = true;
\* if (options.removeEmptyP && cleanEmptyParagraphs(doc)) modified = true;
\* (documents without style attributes, links or notes)
Cleaners(nodes, o) ==
    LET images == IF o.removeImages THEN cleanImages(nodes) ELSE NotRun(nodes)
        paragraphs == IF o.removeEmptyP THEN cleanEmptyParagraphs(images.body)
                      ELSE NotRun(images.body)
    IN  [body |-> paragraphs.body, returned |-> images.returned \/ paragraphs.returned]

\* the children of a paragraph: white space, text, an image, another element,
\* a paragraph
Kids ==
    {TextNode(<<" ", " ">>), TextNode(<<"a">>), Element("img", <<>>),
     Element("span", <<>>), Element("p", <<>>)}

Paragraphs == {Element("p", k) : k \in UNION {[1..n -> Kids] : n \in 0..MaxKids}}

TopNodes == Paragraphs \cup {Element("img", <<>>), Element("image", <<>>)}

\* documents of one or two elements
Bodies == UNION {[1..n -> TopNodes] : n \in 1..2}

InitDom ==
    /\ InitBot
    /\ pipe = NoPipe
    /\ doc \in {[stage |-> "parsed", in |-> b, options |-> o, body |-> b,
                 returned |-> FALSE, calls |-> <<>>] :
                    b \in Bodies, o \in [removeImages : BOOLEAN, removeEmptyP : BOOLEAN]}

\* the cleaners of the entry's task, which run without an await between them
EntryCleaners ==
    /\ doc.stage = "parsed"
    /\ doc.calls = <<>>
    /\ doc' = [doc EXCEPT !.stage = "cleaned",
                          !.body = Cleaners(doc.body, doc.options).body,
                          !.returned = Cleaners(doc.body, doc.options).returned]
    /\ UNCHANGED notDoc

\* the document and the record of the calls after one more call
Called(fn, result) ==
    [doc EXCEPT !.body = result.body,
                !.calls = Append(@, [fn |-> fn, before |-> doc.body,
                                     after |-> result.body,
                                     returned |-> result.returned])]

\* one more call of cleanImages(doc) on the document as it is
CallCleanImages ==
    /\ Len(doc.calls) < MaxCalls
    /\ doc' = Called("cleanImages", cleanImages(doc.body))
    /\ UNCHANGED notDoc

\* one more call of cleanEmptyParagraphs(doc) on the document as it is
CallCleanEmptyParagraphs ==
    /\ Len(doc.calls) < MaxCalls
    /\ doc' = Called("cleanEmptyParagraphs", cleanEmptyParagraphs(doc.body))
    /\ UNCHANGED notDoc

NextDom ==
    \/ EntryCleaners
    \/ CallCleanImages
    \/ CallCleanEmptyParagraphs

SpecDom == InitDom /\ [][NextDom]_vars

Blank(n) == n.tag = "#text" /\ \A i \in DOMAIN n.value : n.value[i] \in WhiteSpace

\* a paragraph with nothing in it but white space
ToPrune(n) == n.tag = "p" /\ \A k \in DOMAIN n.kids : Blank(n.kids[k])

\* the document without the paragraphs to prune, at every depth
RECURSIVE Pruned(_)
Pruned(nodes) ==
    LET kept == SelectSeq(nodes, LAMBDA n : ~ToPrune(n))
    IN  [i \in DOMAIN kept |-> [kept[i] EXCEPT !.kids = Pruned(@)]]

\* C37: cleanEmptyParagraphs removes a paragraph if and only if its trimmed
\* text content is empty and it has no child element: the document after a
\* call is the document before it without the paragraphs that hold nothing but
\* white space.
C37_PrunedIffEmpty ==
    doc.stage # "none"
        => \A i \in DOMAIN doc.calls :
              doc.calls[i].fn = "cleanEmptyParagraphs"
                  => doc.calls[i].after = Pruned(doc.calls[i].before)

\* C37 witness: a call on a paragraph of white space without children, which
\* is removed, beside a paragraph of white space and one child element, which
\* is kept.
C37_Witness ==
    /\ doc.stage = "parsed"
    /\ Len(doc.calls) = 1
    /\ doc.calls[1].fn = "cleanEmptyParagraphs"
    /\ doc.calls[1].before
          = <<Element("p", <<TextNode(<<" ", " ">>)>>),
              Element("p", <<TextNode(<<" ", " ">>), Element("span", <<>>)>>)>>
    /\ doc.calls[1].after
          = <<Element("p", <<TextNode(<<" ", " ">>), Element("span", <<>>)>>)>>

IsImage(n) == n.tag \in {"img", "image"}

\* the document without its image elements, at every depth
RECURSIVE Stripped(_)
Stripped(nodes) ==
    LET kept == SelectSeq(nodes, LAMBDA n : ~IsImage(n))
    IN  [i \in DOMAIN kept |-> [kept[i] EXCEPT !.kids = Stripped(@)]]

\* a paragraph that holds something other than images and white space
Lasting(n) ==
    n.tag = "p" /\ \E k \in DOMAIN n.kids : ~IsImage(n.kids[k]) /\ ~Blank(n.kids[k])

\* C38: with image removal and empty-paragraph pruning both on, the images are
\* stripped before the paragraphs are tested: the transformed entry is the
\* entry without its images and then without the paragraphs left with nothing
\* but white space, so that a paragraph whose only content is an image is
\* absent and as many paragraphs remain as held something else.
C38_ImagesFirst ==
    (/\ doc.stage = "cleaned"
     /\ doc.calls = <<>>
     /\ doc.options.removeImages
     /\ doc.options.removeEmptyP)
        => /\ Len(SelectSeq(doc.body, LAMBDA n : n.tag = "p"))
                 = Len(SelectSeq(doc.in, Lasting))
           /\ doc.body = Pruned(Stripped(doc.in))

\* C38 witness: an entry with a paragraph that holds one image and nothing
\* else was transformed with both options on, and the paragraph is gone.
C38_Witness ==
    /\ doc.stage = "cleaned"
    /\ doc.calls = <<>>
    /\ doc.options.removeImages
    /\ doc.options.removeEmptyP
    /\ doc.in = <<Element("p", <<Element("img", <<>>)>>),
                  Element("p", <<TextNode(<<"a">>)>>)>>
    /\ doc.body = <<Element("p", <<TextNode(<<"a">>)>>)>>

\* C39: a call of cleanImages that follows a call of cleanImages leaves the
\* document as the first call left it and returns false, and a call on a
\* document without image elements returns false and changes nothing.
C39_Idempotent ==
    doc.stage # "none"
        => \A i \in DOMAIN doc.calls :
              LET c == doc.calls[i] IN
              c.fn = "cleanImages"
                  => /\ (~querySelectorAll(c.before, {"img", "image"}))
                            => ~c.returned /\ c.after = c.before
                     /\ (i > 1 /\ doc.calls[i - 1].fn = "cleanImages")
                            => ~c.returned /\ c.after = doc.calls[i - 1].after

\* C39 witness: cleanImages was called twice in a row on a document with an
\* img and an image element, and the first call returned true.
C39_Witness ==
    /\ Len(doc.calls) = 2
    /\ doc.calls[1].fn = "cleanImages"
    /\ doc.calls[2].fn = "cleanImages"
    /\ querySelectorAll(doc.calls[1].before, {"img"})
    /\ querySelectorAll(doc.calls[1].before, {"image"})
    /\ doc.calls[1].returned
    /\ ~doc.calls[2].returned

====
